---- MODULE Spec2Model ----
(***************************************************************************)
(* Model of the compliance-investigation workflow:                         *)
(*   Orchestrator.investigate -> BrowserAgent.execute ->                   *)
(*   ComplianceOSService.{initialize, login, searchCustomer,               *)
(*   extractCustomerData, cleanup} -> ResearchAgent.execute -> saveReport  *)
(* and of the text parsers of ComplianceOSService.                         *)
(*                                                                         *)
(* A string is a sequence of atoms.  In every text the parsers read, an    *)
(* atom is one character ("a", "$", "0").  In messages that are only       *)
(* concatenated and compared, a literal chunk of the source is one atom.   *)
(***************************************************************************)
EXTENDS Integers, Sequences, FiniteSets, TLC

(***************************************************************************)
(* Bounds of the model.                                                    *)
(***************************************************************************)
\* number of (date)(text)(amount) records in a generated transactions region
MaxRecs == 2
\* number of calls (investigate, testConnection) made one after the other on
\* one Orchestrator
MaxRuns == 2
\* clock readings tried when a report generator is applied on its own
MaxClock == 3

(***************************************************************************)
(* Characters and JavaScript string primitives.                            *)
(***************************************************************************)
Digits == <<"0", "1", "2", "3", "4", "5", "6", "7", "8", "9">>

UpperCase ==
  <<"A", "B", "C", "D", "E", "F", "G", "H", "I", "J", "K", "L", "M",
    "N", "O", "P", "Q", "R", "S", "T", "U", "V", "W", "X", "Y", "Z">>

LowerCase ==
  <<"a", "b", "c", "d", "e", "f", "g", "h", "i", "j", "k", "l", "m",
    "n", "o", "p", "q", "r", "s", "t", "u", "v", "w", "x", "y", "z">>

\* \d
IsDigit(c) == \E i \in 1..10 : Digits[i] = c

DigitVal(c) == (CHOOSE i \in 1..10 : Digits[i] = c) - 1

\* [A-Z]
IsUpper(c) == \E i \in 1..26 : UpperCase[i] = c

\* [a-z]
IsLower(c) == \E i \in 1..26 : LowerCase[i] = c

\* \s as far as the modelled texts go
IsSpace(c) == c \in {" ", "\t", "\n"}

ToLowerChar(c) ==
  IF IsUpper(c) THEN LowerCase[CHOOSE i \in 1..26 : UpperCase[i] = c] ELSE c

ToUpperChar(c) ==
  IF IsLower(c) THEN UpperCase[CHOOSE i \in 1..26 : LowerCase[i] = c] ELSE c

\* String.prototype.toLowerCase
toLowerCase(s) == [i \in 1..Len(s) |-> ToLowerChar(s[i])]

\* String.prototype.toUpperCase
toUpperCase(s) == [i \in 1..Len(s) |-> ToUpperChar(s[i])]

\* String.prototype.includes
includes(s, sub) ==
  \E i \in 0..(Len(s) - Len(sub)) : SubSeq(s, i + 1, i + Len(sub)) = sub

\* String.prototype.trim
trim(s) ==
  LET keep == {i \in 1..Len(s) : ~IsSpace(s[i])}
  IN  IF keep = {} THEN <<>>
      ELSE LET lo == CHOOSE i \in keep : \A j \in keep : i <= j
               hi == CHOOSE i \in keep : \A j \in keep : j <= i
           IN  SubSeq(s, lo, hi)

\* Array.prototype.join('')
RECURSIVE join(_)
join(parts) ==
  IF parts = <<>> THEN <<>> ELSE Head(parts) \o join(Tail(parts))

\* String(n) for a natural number
RECURSIVE NatToStr(_)
NatToStr(n) ==
  IF n < 10 THEN <<Digits[n + 1]>>
  ELSE NatToStr(n \div 10) \o <<Digits[(n % 10) + 1]>>

\* JavaScript truthiness of a string: `s || d`
OrElse(s, d) == IF s = <<>> THEN d ELSE s

(***************************************************************************)
(* ComplianceOSService.extractTransactions: the regular expression         *)
(*   /(\d{4}-\d{2}-\d{2})([^$\d]+?)(\$[\d,]+\.\d{2})(?=\d{4}|$)/g          *)
(* Positions are 1-based; lastIndex counts the characters already consumed.*)
(***************************************************************************)
\* \d{4}-\d{2}-\d{2} at position p
DateAt(t, p) ==
  /\ p >= 1
  /\ p + 9 <= Len(t)
  /\ \A k \in {0, 1, 2, 3, 5, 6, 8, 9} : IsDigit(t[p + k])
  /\ t[p + 4] = "-"
  /\ t[p + 7] = "-"

\* (?=\d{4}|$) at position p, the first position after the amount
TxnLookaheadEndOnly(t, p) == p = Len(t) + 1

TxnLookahead(t, p) ==
  \/ (p + 3 <= Len(t) /\ \A k \in 0..3 : IsDigit(t[p + k]))
  \/ p = Len(t) + 1

\* ([^$\d]+?) : the lengths m for which t[s+10 .. s+9+m] is a run without
\* "$" and digits
TxnMidLens(t, s) ==
  {m \in 1..(Len(t) - s - 9) :
     \A j \in (s + 10)..(s + 9 + m) : t[j] # "$" /\ ~IsDigit(t[j])}

\* (\$[\d,]+\.\d{2})(?=\d{4}|$) at position a : the lengths n of the [\d,]+
\* run for which the rest of the pattern matches
TxnAmountLens(t, a) ==
  IF a > Len(t) \/ t[a] # "$" THEN {}
  ELSE {n \in 1..(Len(t) - a - 3) :
          /\ \A j \in (a + 1)..(a + n) : IsDigit(t[j]) \/ t[j] = ","
          /\ t[a + n + 1] = "."
          /\ IsDigit(t[a + n + 2])
          /\ IsDigit(t[a + n + 3])
          /\ TxnLookahead(t, a + n + 4)}

\* the match a backtracking matcher finds at start position s: the lazy
\* quantifier takes the least m that lets the rest match, the greedy one the
\* greatest n
TxnMatchAt(t, s) ==
  IF ~DateAt(t, s) THEN [ok |-> FALSE]
  ELSE
    LET M == {m \in TxnMidLens(t, s) : TxnAmountLens(t, s + 10 + m) # {}}
    IN  IF M = {} THEN [ok |-> FALSE]
        ELSE
          LET m == CHOOSE x \in M : \A y \in M : x <= y
              a == s + 10 + m
              N == TxnAmountLens(t, a)
              n == CHOOSE x \in N : \A y \in N : y <= x
          IN  [ok |-> TRUE,
               index |-> s - 1,
               date |-> SubSeq(t, s, s + 9),
               merchantAndCategory |-> SubSeq(t, s + 10, a - 1),
               amount |-> SubSeq(t, a, a + n + 3),
               lastIndex |-> a + n + 3]

\* transactionPattern.exec(containerText) with the given lastIndex
TxnExec(t, lastIndex) ==
  LET starts == {s \in (lastIndex + 1)..Len(t) : TxnMatchAt(t, s).ok}
  IN  IF starts = {} THEN [ok |-> FALSE]
      ELSE TxnMatchAt(t, CHOOSE s \in starts : \A u \in starts : s <= u)

\* String.prototype.split(/(?=[A-Z])/) : cut before every capital letter
\* that is not the first character
RECURSIVE SplitBeforeUpper(_)
SplitBeforeUpper(s) ==
  LET cuts == {i \in 2..Len(s) : IsUpper(s[i])}
  IN  IF cuts = {} THEN <<s>>
      ELSE LET c == CHOOSE i \in cuts : \A j \in cuts : j <= i
           IN  SplitBeforeUpper(SubSeq(s, 1, c - 1))
                 \o <<SubSeq(s, c, Len(s))>>

\* amount.replace(/[$,]/g, '')
StripCurrency(s) == SelectSeq(s, LAMBDA c : c # "$" /\ c # ",")

\* parseFloat of a string of the shape digits* [. digits*] : the integer
\* part as a number and the fraction as its digits
RECURSIVE DigitsToNat(_)
DigitsToNat(ds) ==
  IF ds = <<>> THEN 0
  ELSE 10 * DigitsToNat(SubSeq(ds, 1, Len(ds) - 1)) + DigitVal(ds[Len(ds)])

parseFloat(s) ==
  LET nonDigit == {i \in 1..Len(s) : ~IsDigit(s[i])}
      intEnd == IF nonDigit = {} THEN Len(s)
                ELSE (CHOOSE i \in nonDigit : \A j \in nonDigit : i <= j) - 1
      rest == SubSeq(s, intEnd + 2, Len(s))
      restNon == {i \in 1..Len(rest) : ~IsDigit(rest[i])}
      fracEnd == IF restNon = {} THEN Len(rest)
                 ELSE (CHOOSE i \in restNon : \A j \in restNon : i <= j) - 1
  IN  [int |-> DigitsToNat(SubSeq(s, 1, intEnd)),
       frac |-> IF intEnd < Len(s) /\ s[intEnd + 1] = "."
                THEN SubSeq(rest, 1, fracEnd) ELSE <<>>]

\* the fixed threshold of the flag rule
RiskThreshold == 10000

\* x > 10000 for a parsed number
GreaterThanThresholdOrEqual(x) == x.int >= RiskThreshold

GreaterThanThreshold(x) ==
  \/ x.int > RiskThreshold
  \/ (x.int = RiskThreshold /\ \E i \in 1..Len(x.frac) : x.frac[i] # "0")

\* the body of the while loop: one match becomes one Transaction
MakeTransaction(match, count) ==
  LET parts == SplitBeforeUpper(trim(match.merchantAndCategory))
      merchant == OrElse(trim(join(SubSeq(parts, 1, Len(parts) - 1))),
                         trim(match.merchantAndCategory))
      category == OrElse(trim(parts[Len(parts)]),
                         <<"T", "r", "a", "n", "s", "f", "e", "r">>)
  IN  [id |-> <<"T", "X", "N", "-">> \o NatToStr(count + 1),
       date |-> match.date,
       amount |-> match.amount,
       counterparty |-> OrElse(merchant, <<"U", "n", "k", "n", "o", "w", "n">>),
       type |-> category,
       status |-> <<"Completed">>,
       flagged |-> \/ includes(toLowerCase(merchant),
                               <<"c", "r", "y", "p", "t", "o">>)
                   \/ GreaterThanThreshold(parseFloat(StripCurrency(match.amount)))]

\* while ((match = transactionPattern.exec(containerText)) !== null) {...}
RECURSIVE TxnLoop(_, _, _)
TxnLoop(t, lastIndex, transactions) ==
  LET match == TxnExec(t, lastIndex)
  IN  IF ~match.ok THEN transactions
      ELSE TxnLoop(t, match.lastIndex,
                   Append(transactions, MakeTransaction(match, Len(transactions))))

\* the parse of one region text
parseTransactions(containerText) == TxnLoop(containerText, 0, <<>>)

(***************************************************************************)
(* The rendered profile page.  A page is a record                          *)
(*   nameText    text of the first h1/h2/.customer-name element ("" when   *)
(*               there is none or reading it fails)                        *)
(*   elements    the visible label elements: [label, strategy, sibling,    *)
(*               parentSibling]; strategy 1..4 is the selector pattern     *)
(*               that finds the element, sibling and parentSibling are the *)
(*               textContent of the two value positions ("" when absent or *)
(*               unreadable)                                               *)
(*   txnHeading, txnText   the "Recent Transactions" heading is visible,   *)
(*               and the textContent of its container                      *)
(*   invHeading, invText   the same for "Past Investigations"              *)
(*   unreadable  the parts whose read throws or rejects: "name", "fields"  *)
(*               (every locator of extractFieldValue), "transactions",     *)
(*               "investigations"                                          *)
(***************************************************************************)
\* the selector patterns of extractFieldValue, in the order of the array
Strategies == 1..4

\* page.locator(pattern).first() is visible
ElementVisible(page, label, strategy) ==
  \E e \in page.elements : e.label = label /\ e.strategy = strategy

ElementAt(page, label, strategy) ==
  CHOOSE e \in page.elements : e.label = label /\ e.strategy = strategy

\* the pattern loop with the two value positions probed in the other order
RECURSIVE ProbePatternsParentFirst(_, _, _)
ProbePatternsParentFirst(page, label, k) ==
  IF k > 4 THEN [found |-> FALSE, value |-> <<>>]
  ELSE IF ElementVisible(page, label, k)
       THEN LET e == ElementAt(page, label, k)
            IN  IF e.parentSibling # <<>>
                THEN [found |-> TRUE, value |-> trim(e.parentSibling)]
                ELSE IF e.sibling # <<>>
                     THEN [found |-> TRUE, value |-> trim(e.sibling)]
                     ELSE ProbePatternsParentFirst(page, label, k + 1)
       ELSE ProbePatternsParentFirst(page, label, k + 1)

\* the body of `for (const pattern of patterns)` from pattern k on; the
\* result is [found, value]
RECURSIVE ProbePatterns(_, _, _)
ProbePatterns(page, label, k) ==
  IF k > 4 THEN [found |-> FALSE, value |-> <<>>]
  ELSE IF ElementVisible(page, label, k)
       THEN LET e == ElementAt(page, label, k)
            IN  IF e.sibling # <<>>
                THEN [found |-> TRUE, value |-> trim(e.sibling)]
                ELSE IF e.parentSibling # <<>>
                     THEN [found |-> TRUE, value |-> trim(e.parentSibling)]
                     ELSE ProbePatterns(page, label, k + 1)
       ELSE ProbePatterns(page, label, k + 1)

\* ComplianceOSService.extractFieldValue
RECURSIVE extractFieldValue(_, _)
extractFieldValue(page, labels) ==
  IF labels = <<>> \/ "fields" \in page.unreadable THEN <<>>
  ELSE LET r == ProbePatterns(page, Head(labels), 1)
       IN  IF r.found THEN r.value
           ELSE extractFieldValue(page, Tail(labels))

\* ComplianceOSService.extractPersonalInfo
extractPersonalInfo(page) ==
  [name |-> IF "name" \in page.unreadable THEN <<>> ELSE page.nameText,
   dateOfBirth |->
     extractFieldValue(page, <<"Date of Birth", "DOB", "Birth Date", "dob">>),
   address |-> extractFieldValue(page, <<"Address", "Location", "Residence">>),
   email |-> extractFieldValue(page, <<"Email", "E-mail">>),
   phone |-> extractFieldValue(page, <<"Phone", "Telephone", "Mobile">>),
   customerId |->
     extractFieldValue(page, <<"Customer ID", "ID", "Account Number">>)]

\* an extractRiskLevel that tests the medium keywords before the high ones
extractRiskLevelMediumFirst(page) ==
  LET riskLevel ==
        extractFieldValue(page,
                          <<"Risk Level", "Risk", "Risk Score", "Risk Rating">>)
      lowercaseText == toLowerCase(riskLevel)
  IN  IF riskLevel # <<>>
      THEN IF \/ includes(lowercaseText, <<"m", "e", "d", "i", "u", "m">>)
              \/ includes(lowercaseText, <<"m", "o", "d", "e", "r", "a", "t", "e">>)
           THEN <<"M", "e", "d", "i", "u", "m">>
           ELSE IF \/ includes(lowercaseText, <<"h", "i", "g", "h">>)
                   \/ includes(lowercaseText, <<"c", "r", "i", "t", "i", "c", "a", "l">>)
                THEN <<"H", "i", "g", "h">>
                ELSE IF \/ includes(lowercaseText, <<"l", "o", "w">>)
                        \/ includes(lowercaseText, <<"m", "i", "n", "i", "m", "a", "l">>)
                     THEN <<"L", "o", "w">>
                     ELSE trim(riskLevel)
      ELSE <<"U", "n", "k", "n", "o", "w", "n">>

\* ComplianceOSService.extractRiskLevel
extractRiskLevel(page) ==
  LET riskLevel ==
        extractFieldValue(page,
                          <<"Risk Level", "Risk", "Risk Score", "Risk Rating">>)
      lowercaseText == toLowerCase(riskLevel)
  IN  IF riskLevel # <<>>
      THEN IF \/ includes(lowercaseText, <<"h", "i", "g", "h">>)
              \/ includes(lowercaseText,
                          <<"c", "r", "i", "t", "i", "c", "a", "l">>)
           THEN <<"H", "i", "g", "h">>
           ELSE IF \/ includes(lowercaseText, <<"m", "e", "d", "i", "u", "m">>)
                   \/ includes(lowercaseText,
                               <<"m", "o", "d", "e", "r", "a", "t", "e">>)
                THEN <<"M", "e", "d", "i", "u", "m">>
                ELSE IF \/ includes(lowercaseText, <<"l", "o", "w">>)
                        \/ includes(lowercaseText,
                                    <<"m", "i", "n", "i", "m", "a", "l">>)
                     THEN <<"L", "o", "w">>
                     ELSE trim(riskLevel)
      ELSE <<"U", "n", "k", "n", "o", "w", "n">>

\* an extractTransactions that reads the container without looking for the
\* heading
extractTransactionsNoHeadingTest(page) ==
  IF "transactions" \in page.unreadable THEN <<>>
  ELSE parseTransactions(page.txnText)

\* ComplianceOSService.extractTransactions
extractTransactions(page) ==
  IF "transactions" \in page.unreadable THEN <<>>
  ELSE IF page.txnHeading THEN parseTransactions(page.txnText) ELSE <<>>

(***************************************************************************)
(* ComplianceOSService.extractInvestigations: the regular expression       *)
(*   /(INV-\d{4}-\d{3})(\d{4}-\d{2}-\d{2})(closed|open)/gi                 *)
(***************************************************************************)
\* a literal of the pattern at position p, compared as the i flag compares
LiteralAtCI(t, p, lit) ==
  /\ p >= 1
  /\ p + Len(lit) - 1 <= Len(t)
  /\ toLowerCase(SubSeq(t, p, p + Len(lit) - 1)) = toLowerCase(lit)

\* a literal of a case-sensitive pattern at position p
LiteralAt(t, p, lit) ==
  /\ p >= 1
  /\ p + Len(lit) - 1 <= Len(t)
  /\ SubSeq(t, p, p + Len(lit) - 1) = lit

\* INV-\d{4}-\d{3} at position p
InvIdAt(t, p) ==
  /\ p + 11 <= Len(t)
  /\ LiteralAtCI(t, p, <<"I", "N", "V", "-">>)
  /\ \A k \in {4, 5, 6, 7, 9, 10, 11} : IsDigit(t[p + k])
  /\ t[p + 8] = "-"

\* (closed|open) at position p: the length of the alternative that matches,
\* the first alternative first; 0 when none does
InvStatusLen(t, p) ==
  IF LiteralAtCI(t, p, <<"c", "l", "o", "s", "e", "d">>) THEN 6
  ELSE IF LiteralAtCI(t, p, <<"o", "p", "e", "n">>) THEN 4
  ELSE 0

InvMatchAt(t, s) ==
  IF InvIdAt(t, s) /\ DateAt(t, s + 12) /\ InvStatusLen(t, s + 22) > 0
  THEN LET n == InvStatusLen(t, s + 22)
       IN  [ok |-> TRUE,
            index |-> s - 1,
            invId |-> SubSeq(t, s, s + 11),
            date |-> SubSeq(t, s + 12, s + 21),
            status |-> SubSeq(t, s + 22, s + 21 + n),
            lastIndex |-> s + 21 + n]
  ELSE [ok |-> FALSE]

\* investigationPattern.exec(containerText) with the given lastIndex
InvExec(t, lastIndex) ==
  LET starts == {s \in (lastIndex + 1)..Len(t) : InvMatchAt(t, s).ok}
  IN  IF starts = {} THEN [ok |-> FALSE]
      ELSE InvMatchAt(t, CHOOSE s \in starts : \A u \in starts : s <= u)

\* the separator /(?=[A-Z][a-z])|alerts|checks/ tried at the 0-based index q:
\* the 0-based end of the match, -1 when it does not match there
TitleSepEnd(S, q) ==
  IF q + 2 <= Len(S) /\ IsUpper(S[q + 1]) /\ IsLower(S[q + 2]) THEN q
  ELSE IF LiteralAt(S, q + 1, <<"a", "l", "e", "r", "t", "s">>) THEN q + 6
  ELSE IF LiteralAt(S, q + 1, <<"c", "h", "e", "c", "k", "s">>) THEN q + 6
  ELSE -1

\* String.prototype.split with that separator: p is the start of the piece
\* being collected, q the index where the separator is tried next
RECURSIVE SplitTitleFrom(_, _, _, _)
SplitTitleFrom(S, p, q, acc) ==
  IF q >= Len(S) THEN Append(acc, SubSeq(S, p + 1, Len(S)))
  ELSE LET e == TitleSepEnd(S, q)
       IN  IF e = -1 \/ e = p THEN SplitTitleFrom(S, p, q + 1, acc)
           ELSE SplitTitleFrom(S, e, e, Append(acc, SubSeq(S, p + 1, q)))

SplitTitle(S) == IF S = <<>> THEN << <<>> >> ELSE SplitTitleFrom(S, 0, 0, <<>>)

\* title.replace(/^(Past Investigations|History of compliance|checks and|alerts)/gi, '')
StripNoise(title) ==
  IF LiteralAtCI(title, 1, <<"P", "a", "s", "t", " ", "I", "n", "v", "e", "s", "t", "i", "g", "a", "t", "i", "o", "n", "s">>)
  THEN SubSeq(title, 20, Len(title))
  ELSE IF LiteralAtCI(title, 1, <<"H", "i", "s", "t", "o", "r", "y", " ", "o", "f", " ", "c", "o", "m", "p", "l", "i", "a", "n", "c", "e">>)
  THEN SubSeq(title, 22, Len(title))
  ELSE IF LiteralAtCI(title, 1, <<"c", "h", "e", "c", "k", "s", " ", "a", "n", "d">>)
  THEN SubSeq(title, 11, Len(title))
  ELSE IF LiteralAtCI(title, 1, <<"a", "l", "e", "r", "t", "s">>)
  THEN SubSeq(title, 7, Len(title))
  ELSE title

\* a loop body that keeps the status as the page spells it
MakeInvestigationRawStatus(t, match) ==
  LET textBeforeMatch == SubSeq(t, 1, match.index)
      titleCandidates == SplitTitle(textBeforeMatch)
      title == OrElse(trim(titleCandidates[Len(titleCandidates)]),
                      <<"I", "n", "v", "e", "s", "t", "i", "g", "a", "t", "i", "o", "n">>)
      cleanTitle == OrElse(trim(StripNoise(title)), <<"C", "o", "m", "p", "l", "i", "a", "n", "c", "e", " ", "I", "n", "v", "e", "s", "t", "i", "g", "a", "t", "i", "o", "n">>)
  IN  [id |-> match.invId,
       date |-> match.date,
       status |-> match.status,
       investigator |-> <<"Compliance Officer">>,
       summary |-> cleanTitle]

\* the body of the while loop: one match becomes one Investigation
MakeInvestigation(t, match) ==
  LET textBeforeMatch == SubSeq(t, 1, match.index)
      titleCandidates == SplitTitle(textBeforeMatch)
      title == OrElse(trim(titleCandidates[Len(titleCandidates)]),
                      <<"I", "n", "v", "e", "s", "t", "i", "g", "a", "t", "i", "o", "n">>)
      cleanTitle == OrElse(trim(StripNoise(title)),
                           <<"C", "o", "m", "p", "l", "i", "a", "n", "c", "e", " ", "I", "n", "v", "e", "s", "t", "i", "g", "a", "t", "i", "o", "n">>)
  IN  [id |-> match.invId,
       date |-> match.date,
       status |-> toUpperCase(SubSeq(match.status, 1, 1))
                    \o toLowerCase(SubSeq(match.status, 2, Len(match.status))),
       investigator |-> <<"Compliance Officer">>,
       summary |-> cleanTitle]

\* while ((match = investigationPattern.exec(containerText)) !== null) {...}
RECURSIVE InvLoop(_, _, _)
InvLoop(t, lastIndex, investigations) ==
  LET match == InvExec(t, lastIndex)
  IN  IF ~match.ok THEN investigations
      ELSE InvLoop(t, match.lastIndex,
                   Append(investigations, MakeInvestigation(t, match)))

\* the parse of one region text
parseInvestigations(containerText) == InvLoop(containerText, 0, <<>>)

\* ComplianceOSService.extractInvestigations
extractInvestigations(page) ==
  IF "investigations" \in page.unreadable THEN <<>>
  ELSE IF page.invHeading THEN parseInvestigations(page.invText) ELSE <<>>

\* ComplianceOSService.extractCustomerData, for a service whose page is open
extractCustomerData(page) ==
  [personalInfo |-> extractPersonalInfo(page),
   riskLevel |-> extractRiskLevel(page),
   transactions |-> extractTransactions(page),
   investigations |-> extractInvestigations(page)]

(***************************************************************************)
(* Reports.                                                                *)
(***************************************************************************)
\* Orchestrator.generateNotFoundReport; generatedAt is the clock reading
NotFoundReportNameNA(customerName, error, clock) ==
  [executiveSummary |->
     <<"Investigation for ">> \o customerName
       \o <<" could not be completed. ">> \o error,
   internalDataOverview |->
     [customerProfile |-> [name |-> <<"N/A">>,
                           dateOfBirth |-> <<"N/A">>,
                           address |-> <<"N/A">>],
      riskLevel |-> <<"Unknown">>,
      transactionsSummary |->
        [total |-> 0, flagged |-> 0, totalAmount |-> <<"$0.00">>],
      investigationHistory |-> [total |-> 0, recent |-> <<>>]],
   externalResearchFindings |->
     [backgroundCheck |-> <<"Customer not found in ComplianceOS database.">>,
      counterpartyAnalysis |-> <<"N/A">>,
      publicRecords |-> <<"N/A">>,
      newsAndMedia |-> <<"N/A">>,
      additionalFindings |-> <<"No data available for analysis.">>],
   riskAssessment |->
     [overallRiskScore |-> <<"Unknown">>,
      riskFactors |-> << <<"Customer not found in system">> >>,
      mitigatingFactors |-> <<>>,
      complianceFlags |-> <<>>],
   recommendedActions |->
     << <<"Verify customer name spelling and try again">>,
        <<"Check if customer exists in ComplianceOS database">>,
        <<"Contact system administrator if customer should exist">> >>,
   generatedAt |-> clock,
   customerName |-> customerName]

NotFoundReportNoReason(customerName, error, clock) ==
  [NotFoundReportNameNA(customerName, error, clock) EXCEPT
     !.internalDataOverview.customerProfile.name = customerName,
     !.executiveSummary =
        <<"Investigation for ">> \o customerName
          \o <<" could not be completed. ">>]

generateNotFoundReport(customerName, error, clock) ==
  [executiveSummary |->
     <<"Investigation for ">> \o customerName
       \o <<" could not be completed. ">> \o error,
   internalDataOverview |->
     [customerProfile |-> [name |-> customerName,
                           dateOfBirth |-> <<"N/A">>,
                           address |-> <<"N/A">>],
      riskLevel |-> <<"Unknown">>,
      transactionsSummary |->
        [total |-> 0, flagged |-> 0, totalAmount |-> <<"$0.00">>],
      investigationHistory |-> [total |-> 0, recent |-> <<>>]],
   externalResearchFindings |->
     [backgroundCheck |-> <<"Customer not found in ComplianceOS database.">>,
      counterpartyAnalysis |-> <<"N/A">>,
      publicRecords |-> <<"N/A">>,
      newsAndMedia |-> <<"N/A">>,
      additionalFindings |-> <<"No data available for analysis.">>],
   riskAssessment |->
     [overallRiskScore |-> <<"Unknown">>,
      riskFactors |-> << <<"Customer not found in system">> >>,
      mitigatingFactors |-> <<>>,
      complianceFlags |-> <<>>],
   recommendedActions |->
     << <<"Verify customer name spelling and try again">>,
        <<"Check if customer exists in ComplianceOS database">>,
        <<"Contact system administrator if customer should exist">> >>,
   generatedAt |-> clock,
   customerName |-> customerName]

\* the hundredths of a parsed amount (the amounts the parser emits carry two
\* fraction digits)
ToCents(x) ==
  100 * x.int
    + (IF Len(x.frac) >= 1 THEN 10 * DigitVal(x.frac[1]) ELSE 0)
    + (IF Len(x.frac) >= 2 THEN DigitVal(x.frac[2]) ELSE 0)

\* t.amount.replace(/[^0-9.-]+/g, '')
KeepNumeric(s) == SelectSeq(s, LAMBDA c : IsDigit(c) \/ c = "." \/ c = "-")

RECURSIVE SumCents(_)
SumCents(transactions) ==
  IF transactions = <<>> THEN 0
  ELSE ToCents(parseFloat(KeepNumeric(Head(transactions).amount)))
         + SumCents(Tail(transactions))

\* n.toLocaleString('en-US') for a natural number: groups of three digits
RECURSIVE GroupThousands(_)
GroupThousands(n) ==
  IF n < 1000 THEN NatToStr(n)
  ELSE GroupThousands(n \div 1000) \o <<",">>
         \o <<Digits[((n \div 100) % 10) + 1],
              Digits[((n \div 10) % 10) + 1],
              Digits[(n % 10) + 1]>>

\* OpenAIService.calculateTotalAmount
calculateTotalAmount(transactions) ==
  LET total == SumCents(transactions)
  IN  <<"$">> \o GroupThousands(total \div 100) \o <<".">>
        \o <<Digits[((total \div 10) % 10) + 1], Digits[(total % 10) + 1]>>

\* transactions.filter(t => t.flagged).length
FlaggedCount(transactions) ==
  Cardinality({k \in 1..Len(transactions) : transactions[k].flagged})

\* the report OpenAIService.generateComplianceReport builds; ai holds the four
\* answers of the language model, already parsed
ComplianceReportOf(customerData, ai, clock) ==
  [executiveSummary |-> ai.executiveSummary,
   internalDataOverview |->
     [customerProfile |-> customerData.personalInfo,
      riskLevel |-> customerData.riskLevel,
      transactionsSummary |->
        [total |-> Len(customerData.transactions),
         flagged |-> FlaggedCount(customerData.transactions),
         totalAmount |-> calculateTotalAmount(customerData.transactions)],
      investigationHistory |->
        [total |-> Len(customerData.investigations),
         recent |->
           SubSeq(customerData.investigations, 1,
                  IF Len(customerData.investigations) < 3
                  THEN Len(customerData.investigations) ELSE 3)]],
   externalResearchFindings |-> ai.externalResearch,
   riskAssessment |-> ai.riskAssessment,
   recommendedActions |-> ai.recommendedActions,
   generatedAt |-> clock,
   customerName |-> customerData.personalInfo.name]

\* report.customerName.replace(/\s+/g, '_')
RECURSIVE ReplaceSpaces(_)
ReplaceSpaces(s) ==
  IF s = <<>> THEN <<>>
  ELSE IF IsSpace(Head(s))
       THEN LET rest == ReplaceSpaces(Tail(s))
            IN  IF Len(s) > 1 /\ IsSpace(s[2]) THEN rest ELSE <<"_">> \o rest
       ELSE <<Head(s)>> \o ReplaceSpaces(Tail(s))

\* the file path Orchestrator.saveReport writes to
ReportPath(report, clock) ==
  <<"reports/", "compliance_report_">>
    \o toLowerCase(ReplaceSpaces(report.customerName))
    \o <<"_">> \o NatToStr(clock) \o <<".md">>

(***************************************************************************)
(* The environment: what the scraped site shows, what can fail, what the   *)
(* language model answers.                                                 *)
(***************************************************************************)
\* customer names handed to Orchestrator.investigate
Names == {<<"J", "o", " ", "D">>, <<"A", "l">>}

\* the cause inside a wrapped error message
Causes == {"Error: timeout"}

TxnRegion1 == <<"R", "e", "c", "e", "n", "t", " ", "T", "r", "a", "n", "s", "a", "c", "t", "i", "o", "n", "s", "2", "0", "2", "4", "-", "0", "1", "-", "1", "5", "C", "r", "y", "p", "t", "o", "X", "$", "1", "0", ",", "0", "0", "0", ".", "0", "0">>

InvRegion1 == <<"P", "a", "s", "t", " ", "I", "n", "v", "e", "s", "t", "i", "g", "a", "t", "i", "o", "n", "s", "U", "n", "u", "s", "u", "a", "l", " ", "v", "o", "l", "u", "m", "e", "I", "N", "V", "-", "2", "0", "2", "3", "-", "0", "0", "1", "2", "0", "2", "3", "-", "1", "1", "-", "1", "5", "c", "l", "o", "s", "e", "d">>

\* profile pages the site can show after a successful search
Pages ==
  { [nameText |-> <<"J", "o", " ", "D">>,
     elements |->
       { [label |-> "Date of Birth", strategy |-> 1,
          sibling |-> <<"1", "9", "9", "0", "-", "0", "1", "-", "0", "1">>, parentSibling |-> <<>>],
         [label |-> "Risk Level", strategy |-> 2,
          sibling |-> <<>>, parentSibling |-> <<"m", "e", "d", "i", "u", "m", " ", "R", "i", "s", "k">>] },
     txnHeading |-> TRUE, txnText |-> TxnRegion1,
     invHeading |-> TRUE, invText |-> InvRegion1,
     unreadable |-> {}],
    [nameText |-> <<"J", "o", " ", "D">>,
     elements |-> {},
     txnHeading |-> FALSE, txnText |-> <<>>,
     invHeading |-> TRUE, invText |-> InvRegion1,
     unreadable |-> {"name", "investigations"}],
    [nameText |-> <<"A", "l">>,
     elements |->
       { [label |-> "Risk", strategy |-> 4,
          sibling |-> <<" ">>, parentSibling |-> <<"H", "i", "g", "h">>] },
     txnHeading |-> TRUE, txnText |-> TxnRegion1,
     invHeading |-> TRUE, invText |-> <<"P", "a", "s", "t", " ", "I", "n", "v", "e", "s", "t", "i", "g", "a", "t", "i", "o", "n", "s">>,
     unreadable |-> {"transactions", "fields"}] }

\* the page shown before any profile is loaded
BlankPage ==
  [nameText |-> <<>>, elements |-> {},
   txnHeading |-> FALSE, txnText |-> <<>>,
   invHeading |-> FALSE, invText |-> <<>>,
   unreadable |-> {}]

\* the parsed answers of the language model to the four requests
AiAnswers ==
  { [externalResearch |->
       [backgroundCheck |-> <<"background">>,
        counterpartyAnalysis |-> <<"counterparties">>,
        publicRecords |-> <<"records">>,
        newsAndMedia |-> <<"news">>,
        additionalFindings |-> <<"additional">>],
     riskAssessment |->
       [overallRiskScore |-> <<"High">>,
        riskFactors |-> << <<"factor">> >>,
        mitigatingFactors |-> <<>>,
        complianceFlags |-> <<>>],
     executiveSummary |-> <<"summary">>,
     recommendedActions |-> << <<"action">> >>] }

\* the chat-completion requests of one generateComplianceReport
RequestsPerReport == 4

\* the callers of the Orchestrator; a caller makes one call at a time
Callers == {1}

(***************************************************************************)
(* State.                                                                  *)
(***************************************************************************)
VARIABLES
  \* ComplianceOSService fields: 0 is null, n > 0 the resource that the n-th
  \* call opened
  browser, context, page,
  \* the resources close() was called on, as <<kind, n>>
  closeCalls,
  \* what the service's page shows
  profile,
  \* the number of calls started so far
  runNo,
  \* per caller, for its current call: where the call is, what was called
  \* (investigate or testConnection), the number of the call, the argument
  pc, kind, run, customerName,
  \* the ComplianceOSService methods the current call invoked, in order: the
  \* methods BrowserAgent calls and the extractions extractCustomerData runs
  calls,
  \* what BrowserAgent.execute returned, what ResearchAgent.execute returned,
  \* the report in hand, what the call returns to the caller
  browserResult, researchResult, report, result,
  \* calls of ResearchAgent.execute, chat-completion requests sent and calls
  \* of saveReport in the current call
  researchCalls, openaiRequests, saveCalls,
  \* the files written, in order; the clock
  files, now,
  \* a pure function under test: its input, its output, whether it was applied
  input, output, applied

serviceVars == <<browser, context, page, closeCalls, profile>>

callVars ==
  <<pc, kind, run, customerName, calls, browserResult, researchResult,
    report, result, researchCalls, openaiRequests, saveCalls>>

worldVars == <<files, now>>

fnVars == <<input, output, applied>>

vars == <<serviceVars, runNo, callVars, worldVars, fnVars>>

\* absent optional value
None == [none |-> TRUE]

InitWorkflow ==
  /\ browser = 0
  /\ context = 0
  /\ page = 0
  /\ closeCalls = {}
  /\ profile = BlankPage
  /\ runNo = 0
  /\ pc = [c \in Callers |-> "idle"]
  /\ kind = [c \in Callers |-> "none"]
  /\ run = [c \in Callers |-> 0]
  /\ customerName = [c \in Callers |-> <<>>]
  /\ calls = [c \in Callers |-> <<>>]
  /\ browserResult = [c \in Callers |-> None]
  /\ researchResult = [c \in Callers |-> None]
  /\ report = [c \in Callers |-> None]
  /\ result = [c \in Callers |-> None]
  /\ researchCalls = [c \in Callers |-> 0]
  /\ openaiRequests = [c \in Callers |-> 0]
  /\ saveCalls = [c \in Callers |-> 0]
  /\ files = <<>>
  /\ now = 1

InitFn ==
  /\ input = None
  /\ output = None
  /\ applied = FALSE

Init == InitWorkflow /\ InitFn

(***************************************************************************)
(* ComplianceOSService methods that change the service's fields.           *)
(***************************************************************************)
\* the step of initialize that throws, "ok" when none does
InitOutcomes == {"ok", "launch", "newContext", "newPage"}

\* ComplianceOSService.initialize in call number n
SvcInitialize(n, o) ==
  /\ browser' = IF o = "launch" THEN browser ELSE n
  /\ context' = IF o \in {"launch", "newContext"} THEN context ELSE n
  /\ page' = IF o = "ok" THEN n ELSE page
  /\ profile' = IF o = "ok" THEN BlankPage ELSE profile
  /\ UNCHANGED closeCalls

\* the close() that throws inside cleanup, "none" when none does
CleanupOutcomes == {"none", "page", "context", "browser"}

\* ComplianceOSService.cleanup
SvcCleanup(f) ==
  LET pageThrows == page # 0 /\ f = "page"
      contextReached == ~pageThrows
      contextThrows == contextReached /\ context # 0 /\ f = "context"
      browserReached == contextReached /\ ~contextThrows
      browserThrows == browserReached /\ browser # 0 /\ f = "browser"
  IN  /\ closeCalls' =
           closeCalls
             \cup (IF page # 0 THEN {<<"page", page>>} ELSE {})
             \cup (IF contextReached /\ context # 0
                   THEN {<<"context", context>>} ELSE {})
             \cup (IF browserReached /\ browser # 0
                   THEN {<<"browser", browser>>} ELSE {})
      /\ page' = IF pageThrows THEN page ELSE 0
      /\ context' = IF contextReached /\ ~contextThrows THEN 0 ELSE context
      /\ browser' = IF browserReached /\ ~browserThrows THEN 0 ELSE browser
      /\ UNCHANGED profile

\* an extractCustomerData whose transactions array is a field of the service
\* and outlives the call
SvcExtractCustomerDataCarried ==
  [extractCustomerData(profile) EXCEPT
     !.transactions =
       IF "transactions" \in profile.unreadable \/ ~profile.txnHeading
       THEN <<>>
       ELSE TxnLoop(profile.txnText, 0,
                    IF applied THEN output[Len(output)].transactions
                    ELSE <<>>)]

\* ComplianceOSService.extractCustomerData, called on the page the service
\* holds
SvcExtractCustomerData == extractCustomerData(profile)

\* a catch block that drops the message of the Error
FailureNoMessage(message) == [success |-> FALSE, error |-> <<>>]

\* what the catch block of BrowserAgent.execute returns for an Error
Failure(message) == [success |-> FALSE, error |-> message]

(***************************************************************************)
(* Orchestrator.investigate and BrowserAgent.execute, one action per       *)
(* awaited step.  The calls of one caller follow one another; the locals   *)
(* of a call are fresh when it starts.                                     *)
(***************************************************************************)
CanStart(c) ==
  /\ pc[c] \in {"idle", "done"}
  /\ runNo < MaxRuns

\* the locals of a call that starts
StartCall(c, k, name, firstPc) ==
  /\ runNo' = runNo + 1
  /\ run' = [run EXCEPT ![c] = runNo + 1]
  /\ kind' = [kind EXCEPT ![c] = k]
  /\ customerName' = [customerName EXCEPT ![c] = name]
  /\ pc' = [pc EXCEPT ![c] = firstPc]
  /\ calls' = [calls EXCEPT ![c] = <<>>]
  /\ browserResult' = [browserResult EXCEPT ![c] = None]
  /\ researchResult' = [researchResult EXCEPT ![c] = None]
  /\ report' = [report EXCEPT ![c] = None]
  /\ result' = [result EXCEPT ![c] = None]
  /\ researchCalls' = [researchCalls EXCEPT ![c] = 0]
  /\ openaiRequests' = [openaiRequests EXCEPT ![c] = 0]
  /\ saveCalls' = [saveCalls EXCEPT ![c] = 0]

\* Orchestrator.investigate(name) is called and enters BrowserAgent.execute
Investigate(c) ==
  /\ CanStart(c)
  /\ \E name \in Names : StartCall(c, "investigate", name, "initialize")
  /\ UNCHANGED <<serviceVars, worldVars, fnVars>>

\* await this.complianceService.initialize()
Initialize(c) ==
  /\ pc[c] = "initialize"
  /\ calls' = [calls EXCEPT ![c] = Append(@, "initialize")]
  /\ \E o \in InitOutcomes, e \in Causes :
       /\ SvcInitialize(run[c], o)
       /\ IF o = "ok"
          THEN /\ pc' = [pc EXCEPT ![c] = "login"]
               /\ UNCHANGED browserResult
          ELSE /\ pc' = [pc EXCEPT ![c] = "cleanup"]
               /\ browserResult' =
                    [browserResult EXCEPT ![c] =
                       Failure(<<"Browser initialization failed: ", e>>)]
  /\ UNCHANGED <<runNo, kind, run, customerName, researchResult, report,
                 result, researchCalls, openaiRequests, saveCalls, worldVars,
                 fnVars>>

\* an execute that calls login a second time when the first call throws
LoginRetriedOnce(c) ==
  /\ pc[c] = "login"
  /\ calls' = [calls EXCEPT ![c] = Append(@, "login")]
  /\ \E ok \in BOOLEAN, e \in Causes :
       IF ok /\ page # 0
       THEN /\ pc' = [pc EXCEPT ![c] = "searchCustomer"]
            /\ UNCHANGED browserResult
       ELSE IF \A i \in 1..Len(calls[c]) : calls[c][i] # "login"
            THEN UNCHANGED <<pc, browserResult>>
            ELSE /\ pc' = [pc EXCEPT ![c] = "cleanup"]
                 /\ browserResult' =
                      [browserResult EXCEPT ![c] =
                         Failure(<<"Login failed: ", e>>)]
  /\ UNCHANGED <<serviceVars, runNo, kind, run, customerName, researchResult,
                 report, result, researchCalls, openaiRequests, saveCalls,
                 worldVars, fnVars>>

\* await this.complianceService.login()
Login(c) ==
  /\ pc[c] = "login"
  /\ calls' = [calls EXCEPT ![c] = Append(@, "login")]
  /\ IF page = 0
     THEN /\ pc' = [pc EXCEPT ![c] = "cleanup"]
          /\ browserResult' =
               [browserResult EXCEPT ![c] =
                  Failure(<<"Browser not initialized. Call initialize() first.">>)]
     ELSE \E ok \in BOOLEAN, e \in Causes :
            IF ok
            THEN /\ pc' = [pc EXCEPT ![c] = "searchCustomer"]
                 /\ UNCHANGED browserResult
            ELSE /\ pc' = [pc EXCEPT ![c] = "cleanup"]
                 /\ browserResult' =
                      [browserResult EXCEPT ![c] =
                         Failure(<<"Login failed: ", e>>)]
  /\ UNCHANGED <<serviceVars, runNo, kind, run, customerName, researchResult,
                 report, result, researchCalls, openaiRequests, saveCalls,
                 worldVars, fnVars>>

\* const found = await this.complianceService.searchCustomer(customerName);
\* if (!found) return {success: false, error: ...}
SearchCustomer(c) ==
  /\ pc[c] = "searchCustomer"
  /\ calls' = [calls EXCEPT ![c] = Append(@, "searchCustomer")]
  /\ IF page = 0
     THEN /\ pc' = [pc EXCEPT ![c] = "cleanup"]
          /\ browserResult' =
               [browserResult EXCEPT ![c] =
                  Failure(<<"Browser not initialized">>)]
          /\ UNCHANGED profile
     ELSE \/ \E p \in Pages :
               /\ profile' = p
               /\ pc' = [pc EXCEPT ![c] = "extractCustomerData"]
               /\ UNCHANGED browserResult
          \/ /\ pc' = [pc EXCEPT ![c] = "cleanup"]
             /\ browserResult' =
                  [browserResult EXCEPT ![c] =
                     Failure(<<"Customer \"">> \o customerName[c]
                               \o <<"\" not found in ComplianceOS">>)]
             /\ UNCHANGED profile
          \/ \E e \in Causes :
               /\ pc' = [pc EXCEPT ![c] = "cleanup"]
               /\ browserResult' =
                    [browserResult EXCEPT ![c] =
                       Failure(<<"Customer search failed: ", e>>)]
               /\ UNCHANGED profile
  /\ UNCHANGED <<browser, context, page, closeCalls, runNo, kind, run,
                 customerName, researchResult, report, result, researchCalls,
                 openaiRequests, saveCalls, worldVars, fnVars>>

\* an extractCustomerData that reads the risk level before the personal
\* information
ExtractionCallsRiskFirst ==
  <<"extractRiskLevel", "extractPersonalInfo", "extractTransactions",
    "extractInvestigations">>

\* the extractions extractCustomerData awaits one after the other once it
\* holds a page
ExtractionCalls ==
  <<"extractPersonalInfo", "extractRiskLevel", "extractTransactions",
    "extractInvestigations">>

\* an execute that gives up when a part of the page cannot be read
ExtractCustomerDataAbortOnUnreadable(c) ==
  /\ pc[c] = "extractCustomerData"
  /\ calls' =
       [calls EXCEPT
          ![c] = Append(@, "extractCustomerData")
                   \o (IF page = 0 THEN <<>> ELSE ExtractionCalls)]
  /\ browserResult' =
       [browserResult EXCEPT ![c] =
          IF page = 0 THEN Failure(<<"Browser not initialized">>)
          ELSE IF profile.unreadable # {}
               THEN Failure(<<"Data extraction failed: ", "Error: timeout">>)
               ELSE [success |-> TRUE, data |-> SvcExtractCustomerData]]
  /\ pc' = [pc EXCEPT ![c] = "cleanup"]
  /\ UNCHANGED <<serviceVars, runNo, kind, run, customerName, researchResult,
                 report, result, researchCalls, openaiRequests, saveCalls,
                 worldVars, fnVars>>

\* const customerData = await this.complianceService.extractCustomerData();
\* return {success: true, data: customerData}
ExtractCustomerData(c) ==
  /\ pc[c] = "extractCustomerData"
  /\ calls' =
       [calls EXCEPT
          ![c] = Append(@, "extractCustomerData")
                   \o (IF page = 0 THEN <<>> ELSE ExtractionCalls)]
  /\ browserResult' =
       [browserResult EXCEPT ![c] =
          IF page = 0 THEN Failure(<<"Browser not initialized">>)
          ELSE [success |-> TRUE, data |-> SvcExtractCustomerData]]
  /\ pc' = [pc EXCEPT ![c] = "cleanup"]
  /\ UNCHANGED <<serviceVars, runNo, kind, run, customerName, researchResult,
                 report, result, researchCalls, openaiRequests, saveCalls,
                 worldVars, fnVars>>

\* cleanup at the end of the try block only, not in a finally block
CleanupOnSuccessOnly(c) ==
  /\ pc[c] = "cleanup"
  /\ IF browserResult[c].success
     THEN /\ calls' = [calls EXCEPT ![c] = Append(@, "cleanup")]
          /\ \E f \in CleanupOutcomes : SvcCleanup(f)
     ELSE UNCHANGED <<calls, serviceVars>>
  /\ pc' = [pc EXCEPT ![c] = "decide"]
  /\ UNCHANGED <<runNo, kind, run, customerName, browserResult,
                 researchResult, report, result, researchCalls,
                 openaiRequests, saveCalls, worldVars, fnVars>>

\* finally { await this.complianceService.cleanup() }, then execute returns
Cleanup(c) ==
  /\ pc[c] = "cleanup"
  /\ calls' = [calls EXCEPT ![c] = Append(@, "cleanup")]
  /\ \E f \in CleanupOutcomes : SvcCleanup(f)
  /\ pc' = [pc EXCEPT ![c] = "decide"]
  /\ UNCHANGED <<runNo, kind, run, customerName, browserResult,
                 researchResult, report, result, researchCalls,
                 openaiRequests, saveCalls, worldVars, fnVars>>

\* if (!browserResult.success || !browserResult.data)
NotFoundBranchNameCheck(br) ==
  \/ ~br.success
  \/ "data" \notin DOMAIN br
  \/ br.data.personalInfo.name = <<>>

NotFoundBranch(br) == ~br.success \/ "data" \notin DOMAIN br

\* browserResult.error || 'Customer not found'
NotFoundReason(br) ==
  IF "error" \in DOMAIN br /\ br.error # <<>> THEN br.error
  ELSE <<"Customer not found">>

\* an investigate that hands every browserResult to the research phase
DecideWithoutTest(c) ==
  /\ pc[c] = "decide"
  /\ pc' = [pc EXCEPT ![c] = "research"]
  /\ UNCHANGED <<serviceVars, runNo, kind, run, customerName, calls,
                 browserResult, researchResult, report, result,
                 researchCalls, openaiRequests, saveCalls, worldVars, fnVars>>

\* Orchestrator.investigate after BrowserAgent.execute returned
Decide(c) ==
  /\ pc[c] = "decide"
  /\ IF NotFoundBranch(browserResult[c])
     THEN /\ report' =
               [report EXCEPT ![c] =
                  generateNotFoundReport(customerName[c],
                                         NotFoundReason(browserResult[c]),
                                         now)]
          /\ now' = now + 1
          /\ pc' = [pc EXCEPT ![c] = "save"]
     ELSE /\ pc' = [pc EXCEPT ![c] = "research"]
          /\ UNCHANGED <<report, now>>
  /\ UNCHANGED <<serviceVars, runNo, kind, run, customerName, calls,
                 browserResult, researchResult, result, researchCalls,
                 openaiRequests, saveCalls, files, fnVars>>

\* researchResult.error || 'Failed to generate compliance report'
ResearchError(rr) ==
  IF "error" \in DOMAIN rr /\ rr.error # <<>> THEN rr.error
  ELSE <<"Failed to generate compliance report">>

\* a report generation that fills the empty fields of the profile object it
\* shares with the record
ResearchFillsProfile(c) ==
  /\ pc[c] = "research"
  /\ "data" \in DOMAIN browserResult[c]
  /\ researchCalls' = [researchCalls EXCEPT ![c] = @ + 1]
  /\ browserResult' =
       [browserResult EXCEPT ![c].data.personalInfo.dateOfBirth =
          OrElse(@, <<"N", "/", "A">>)]
  /\ \/ \E k \in 1..RequestsPerReport, e \in Causes :
          LET rr == Failure(<<"Report generation failed: ", e>>)
          IN  /\ openaiRequests' = [openaiRequests EXCEPT ![c] = @ + k]
              /\ researchResult' = [researchResult EXCEPT ![c] = rr]
              /\ result' =
                   [result EXCEPT ![c] = Failure(ResearchError(rr))]
              /\ pc' = [pc EXCEPT ![c] = "done"]
              /\ UNCHANGED <<report, now>>
     \/ \E ai \in AiAnswers :
          LET rep == ComplianceReportOf(browserResult'[c].data, ai, now)
          IN  /\ openaiRequests' =
                   [openaiRequests EXCEPT ![c] = @ + RequestsPerReport]
              /\ researchResult' =
                   [researchResult EXCEPT ![c] =
                      [success |-> TRUE, report |-> rep]]
              /\ report' = [report EXCEPT ![c] = rep]
              /\ now' = now + 1
              /\ pc' = [pc EXCEPT ![c] = "save"]
              /\ UNCHANGED result
  /\ UNCHANGED <<serviceVars, runNo, kind, run, customerName, calls,
                 saveCalls, files, fnVars>>

\* const researchResult = await this.researchAgent.execute(browserResult.data)
\* and the test of its result; the k-th request of generateComplianceReport
\* may throw.  Without data, execute throws before its try block when it
\* reads customerData.personalInfo, and investigate catches the TypeError.
Research(c) ==
  /\ pc[c] = "research"
  /\ researchCalls' = [researchCalls EXCEPT ![c] = @ + 1]
  /\ \/ /\ "data" \notin DOMAIN browserResult[c]
        /\ result' =
             [result EXCEPT ![c] =
                Failure(<<"Cannot read properties of undefined">>)]
        /\ pc' = [pc EXCEPT ![c] = "done"]
        /\ UNCHANGED <<openaiRequests, researchResult, report, now>>
     \/ \E k \in 1..RequestsPerReport, e \in Causes :
          LET rr == Failure(<<"Report generation failed: ", e>>)
          IN  /\ "data" \in DOMAIN browserResult[c]
              /\ openaiRequests' = [openaiRequests EXCEPT ![c] = @ + k]
              /\ researchResult' = [researchResult EXCEPT ![c] = rr]
              /\ result' =
                   [result EXCEPT ![c] = Failure(ResearchError(rr))]
              /\ pc' = [pc EXCEPT ![c] = "done"]
              /\ UNCHANGED <<report, now>>
     \/ \E ai \in AiAnswers :
          LET rep == ComplianceReportOf(browserResult[c].data, ai, now)
          IN  /\ "data" \in DOMAIN browserResult[c]
              /\ openaiRequests' =
                   [openaiRequests EXCEPT ![c] = @ + RequestsPerReport]
              /\ researchResult' =
                   [researchResult EXCEPT ![c] =
                      [success |-> TRUE, report |-> rep]]
              /\ report' = [report EXCEPT ![c] = rep]
              /\ now' = now + 1
              /\ pc' = [pc EXCEPT ![c] = "save"]
              /\ UNCHANGED result
  /\ UNCHANGED <<serviceVars, runNo, kind, run, customerName, calls,
                 browserResult, saveCalls, files, fnVars>>

\* a saveReport whose failure escapes investigate: no result is returned
SaveFailureUncaught(c) ==
  /\ pc[c] = "save"
  /\ saveCalls' = [saveCalls EXCEPT ![c] = @ + 1]
  /\ now' = now + 1
  /\ \/ LET path == ReportPath(report[c], now)
        IN  /\ files' = Append(files, [path |-> path, report |-> report[c]])
            /\ result' =
                 [result EXCEPT ![c] =
                    [success |-> TRUE, report |-> report[c],
                     reportPath |-> path]]
     \/ UNCHANGED <<files, result>>
  /\ pc' = [pc EXCEPT ![c] = "done"]
  /\ UNCHANGED <<serviceVars, runNo, kind, run, customerName, calls,
                 browserResult, researchResult, report, researchCalls,
                 openaiRequests, fnVars>>

\* an investigate that reports success although saveReport threw
SaveFailureSwallowed(c) ==
  /\ pc[c] = "save"
  /\ saveCalls' = [saveCalls EXCEPT ![c] = @ + 1]
  /\ now' = now + 1
  /\ LET path == ReportPath(report[c], now)
     IN  /\ result' =
              [result EXCEPT ![c] =
                 [success |-> TRUE, report |-> report[c],
                  reportPath |-> path]]
         /\ \/ files' = Append(files, [path |-> path, report |-> report[c]])
            \/ UNCHANGED files
  /\ pc' = [pc EXCEPT ![c] = "done"]
  /\ UNCHANGED <<serviceVars, runNo, kind, run, customerName, calls,
                 browserResult, researchResult, report, researchCalls,
                 openaiRequests, fnVars>>

\* const reportPath = await this.saveReport(report); return {...}; a failure
\* of mkdir or writeFile is rethrown and caught by investigate
Save(c) ==
  /\ pc[c] = "save"
  /\ saveCalls' = [saveCalls EXCEPT ![c] = @ + 1]
  /\ now' = now + 1
  /\ \/ LET path == ReportPath(report[c], now)
        IN  /\ files' = Append(files, [path |-> path, report |-> report[c]])
            /\ result' =
                 [result EXCEPT ![c] =
                    [success |-> TRUE, report |-> report[c],
                     reportPath |-> path]]
     \/ \E e \in Causes :
          /\ result' =
               [result EXCEPT ![c] =
                  Failure(<<"Failed to save report: ", e>>)]
          /\ UNCHANGED files
  /\ pc' = [pc EXCEPT ![c] = "done"]
  /\ UNCHANGED <<serviceVars, runNo, kind, run, customerName, calls,
                 browserResult, researchResult, report, researchCalls,
                 openaiRequests, fnVars>>

(***************************************************************************)
(* BrowserAgent.testConnection.                                            *)
(***************************************************************************)
TestConnection(c) ==
  /\ CanStart(c)
  /\ StartCall(c, "testConnection", <<>>, "t_initialize")
  /\ UNCHANGED <<serviceVars, worldVars, fnVars>>

\* try { await this.complianceService.initialize()
TestInitialize(c) ==
  /\ pc[c] = "t_initialize"
  /\ calls' = [calls EXCEPT ![c] = Append(@, "initialize")]
  /\ \E o \in InitOutcomes :
       /\ SvcInitialize(run[c], o)
       /\ pc' = [pc EXCEPT ![c] = IF o = "ok" THEN "t_login" ELSE "t_catch"]
  /\ UNCHANGED <<runNo, kind, run, customerName, browserResult,
                 researchResult, report, result, researchCalls,
                 openaiRequests, saveCalls, worldVars, fnVars>>

\* await this.complianceService.login()
TestLogin(c) ==
  /\ pc[c] = "t_login"
  /\ calls' = [calls EXCEPT ![c] = Append(@, "login")]
  /\ IF page = 0
     THEN pc' = [pc EXCEPT ![c] = "t_catch"]
     ELSE \E ok \in BOOLEAN :
            pc' = [pc EXCEPT ![c] = IF ok THEN "t_cleanup" ELSE "t_catch"]
  /\ UNCHANGED <<serviceVars, runNo, kind, run, customerName, browserResult,
                 researchResult, report, result, researchCalls,
                 openaiRequests, saveCalls, worldVars, fnVars>>

\* await this.complianceService.cleanup(); return true } catch (error) {
\* await this.complianceService.cleanup(); return false }
TestCleanup(c) ==
  /\ pc[c] \in {"t_cleanup", "t_catch"}
  /\ calls' = [calls EXCEPT ![c] = Append(@, "cleanup")]
  /\ \E f \in CleanupOutcomes : SvcCleanup(f)
  /\ result' = [result EXCEPT ![c] = [connected |-> pc[c] = "t_cleanup"]]
  /\ pc' = [pc EXCEPT ![c] = "done"]
  /\ UNCHANGED <<runNo, kind, run, customerName, browserResult,
                 researchResult, report, researchCalls, openaiRequests,
                 saveCalls, worldVars, fnVars>>

Next ==
  \E c \in Callers :
    \/ Investigate(c)
    \/ Initialize(c)
    \/ Login(c)
    \/ SearchCustomer(c)
    \/ ExtractCustomerData(c)
    \/ Cleanup(c)
    \/ Decide(c)
    \/ Research(c)
    \/ Save(c)
    \/ TestConnection(c)
    \/ TestInitialize(c)
    \/ TestLogin(c)
    \/ TestCleanup(c)

Spec == Init /\ [][Next]_vars

(***************************************************************************)
(* Pure functions applied on their own: the input is drawn by Init, one    *)
(* action applies the function.                                            *)
(***************************************************************************)
TxnDates == {<<"2", "0", "2", "4", "-", "0", "1", "-", "1", "5">>, <<"2", "0", "2", "3", "-", "1", "2", "-", "0", "1">>}

TxnTexts == {<<"C", "r", "y", "p", "t", "o", "X">>, <<"X", "C", "r", "y", "p", "t", "o">>, <<"s", "h", "o", "p">>, <<" ">>}

TxnAmounts == {<<"$", "9", ".", "9", "9">>, <<"$", "1", "0", ",", "0", "0", "0", ".", "0", "0">>, <<"$", "1", "0", ",", "0", "0", "0", ".", "0", "1">>}

\* a well-formed record: (date)(text)(amount)
TxnRecords == [date : TxnDates, text : TxnTexts, amount : TxnAmounts]

RECURSIVE FlattenRecords(_)
FlattenRecords(recs) ==
  IF recs = <<>> THEN <<>>
  ELSE Head(recs).date \o Head(recs).text \o Head(recs).amount
         \o FlattenRecords(Tail(recs))

\* region texts made of N well-formed records, N <= MaxRecs
TxnInputs ==
  {[fn |-> "parseTransactions", recs |-> rs, text |-> FlattenRecords(rs)] :
     rs \in UNION {[1..n -> TxnRecords] : n \in 0..MaxRecs}}

InitTxn ==
  /\ InitWorkflow
  /\ input \in TxnInputs
  /\ output = None
  /\ applied = FALSE

ApplyParseTransactions ==
  /\ ~applied
  /\ output' = parseTransactions(input.text)
  /\ applied' = TRUE
  /\ UNCHANGED <<input, serviceVars, runNo, callVars, worldVars>>

NextTxn == ApplyParseTransactions

SpecTxn == InitTxn /\ [][NextTxn]_vars

\* the reasons Orchestrator.investigate hands to generateNotFoundReport
NotFoundReasons ==
  {<<"Customer not found">>,
   <<"Browser initialization failed: ", "Error: timeout">>,
   <<"Login failed: ", "Error: timeout">>,
   <<"Customer search failed: ", "Error: timeout">>,
   <<"Customer \"">> \o <<"J", "o", " ", "D">> \o <<"\" not found in ComplianceOS">>,
   <<"Customer \"">> \o <<"A", "l">> \o <<"\" not found in ComplianceOS">>}

\* the same arguments at two clock readings
NotFoundInputs ==
  [fn : {"generateNotFoundReport"}, customerName : Names,
   error : NotFoundReasons, clocks : (1..MaxClock) \X (1..MaxClock)]

InitNotFound ==
  /\ InitWorkflow
  /\ input \in NotFoundInputs
  /\ output = None
  /\ applied = FALSE

ApplyGenerateNotFoundReport ==
  /\ ~applied
  /\ output' =
       <<generateNotFoundReport(input.customerName, input.error,
                                input.clocks[1]),
         generateNotFoundReport(input.customerName, input.error,
                                input.clocks[2])>>
  /\ applied' = TRUE
  /\ UNCHANGED <<input, serviceVars, runNo, callVars, worldVars>>

NextNotFound == ApplyGenerateNotFoundReport

SpecNotFound == InitNotFound /\ [][NextNotFound]_vars

(***************************************************************************)
(* Properties.                                                             *)
(***************************************************************************)
\* BrowserAgent.execute has returned to Orchestrator.investigate
ExecuteReturned(c) ==
  kind[c] = "investigate" /\ pc[c] \in {"decide", "research", "save", "done"}

\* Orchestrator.investigate has passed its test of browserResult
Decided(c) ==
  kind[c] = "investigate" /\ pc[c] \in {"research", "save", "done"}

\* Orchestrator.investigate holds a not-found report
HoldsNotFoundReport(c) ==
  /\ kind[c] = "investigate"
  /\ pc[c] \in {"save", "done"}
  /\ ~browserResult[c].success

Count(seq, x) == Cardinality({i \in 1..Len(seq) : seq[i] = x})

Called(c, method) == \E i \in 1..Len(calls[c]) : calls[c][i] = method

\* C1: whenever BrowserAgent.execute returned success=false or no data,
\* ResearchAgent.execute is never invoked and no chat-completion request is
\* sent, up to and including the return of investigate, which returns a result
C1_NoResearchOnNotFound ==
  \A c \in Callers :
    (/\ ExecuteReturned(c)
     /\ \/ ~browserResult[c].success
        \/ "data" \notin DOMAIN browserResult[c])
    => /\ researchCalls[c] = 0
       /\ openaiRequests[c] = 0
       /\ pc[c] # "research"
       /\ pc[c] = "done" => "success" \in DOMAIN result[c]

C1_Witness ==
  \E c \in Callers :
    /\ kind[c] = "investigate"
    /\ pc[c] = "done"
    /\ ~browserResult[c].success
    /\ Called(c, "searchCustomer")
    /\ result[c].success

\* the research phase has been entered in the current call
ResearchEntered(c) == pc[c] = "research" \/ researchCalls[c] > 0

C3_SessionFailureIsFatal ==
  \A c \in Callers :
    (/\ kind[c] = "investigate"
     /\ pc[c] = "done"
     /\ ~Called(c, "searchCustomer"))
    => /\ ~result[c].success
       /\ "error" \in DOMAIN result[c]
       /\ "report" \notin DOMAIN result[c]

\* C4 as stated: name, dateOfBirth and address of the not-found report are
\* all "N/A"
C4_Original ==
  \A c \in Callers :
    HoldsNotFoundReport(c)
    => LET p == report[c].internalDataOverview.customerProfile
       IN  /\ p.name = <<"N/A">>
           /\ p.dateOfBirth = <<"N/A">>
           /\ p.address = <<"N/A">>

\* C4 amended: in the not-found report dateOfBirth and address are "N/A" and
\* name is the customer name that was searched
C4_ProfileOfNotFound ==
  \A c \in Callers :
    HoldsNotFoundReport(c)
    => LET p == report[c].internalDataOverview.customerProfile
       IN  /\ DOMAIN p = {"name", "dateOfBirth", "address"}
           /\ p.name = customerName[c]
           /\ p.dateOfBirth = <<"N/A">>
           /\ p.address = <<"N/A">>

C4_Witness ==
  \E c \in Callers :
    /\ HoldsNotFoundReport(c)
    /\ pc[c] = "save"
    /\ customerName[c] = <<"A", "l">>
    /\ report[c].internalDataOverview.customerProfile.name = <<"A", "l">>

\* C5: for every (customerName, reason) the not-found report has riskLevel
\* "Unknown", no transactions, no flagged transactions, no investigations,
\* the fixed list of recommended actions and a summary containing the reason;
\* generated twice from the same arguments it differs at most in generatedAt
C5_NotFoundReport ==
  applied
  => /\ \A k \in 1..2 :
          LET o == output[k].internalDataOverview
          IN  /\ o.riskLevel = <<"Unknown">>
              /\ o.transactionsSummary.total = 0
              /\ o.transactionsSummary.flagged = 0
              /\ o.investigationHistory.total = 0
              /\ o.investigationHistory.recent = <<>>
              /\ output[k].recommendedActions =
                   << <<"Verify customer name spelling and try again">>,
                      <<"Check if customer exists in ComplianceOS database">>,
                      <<"Contact system administrator if customer should exist">> >>
              /\ includes(output[k].executiveSummary, input.error)
              /\ output[k].generatedAt = input.clocks[k]
     /\ [output[1] EXCEPT !.generatedAt = 0]
          = [output[2] EXCEPT !.generatedAt = 0]

C5_Witness ==
  /\ applied
  /\ input.clocks[1] # input.clocks[2]
  /\ input.error = <<"Login failed: ", "Error: timeout">>
  /\ output[1].generatedAt # output[2].generatedAt

\* C6: once execute or testConnection has returned, cleanup was invoked
\* exactly once in the call and is the last service method invoked; before
\* that it was not invoked
C6_CleanupExactlyOnce ==
  \A c \in Callers :
    IF pc[c] \in {"decide", "research", "save", "done"}
    THEN /\ Count(calls[c], "cleanup") = 1
         /\ calls[c][Len(calls[c])] = "cleanup"
    ELSE Count(calls[c], "cleanup") = 0

C6_Witness ==
  \E c \in Callers :
    /\ kind[c] = "investigate"
    /\ pc[c] = "decide"
    /\ calls[c] = <<"initialize", "login", "cleanup">>
    /\ ~browserResult[c].success

\* C7: what execute returns is either success=true with data (personalInfo
\* with name, dateOfBirth and address, riskLevel, transactions,
\* investigations) and no error, or success=false with a non-empty error and
\* no data; it always returns one of the two
C7_ExecuteResultShape ==
  \A c \in Callers :
    ExecuteReturned(c)
    => LET br == browserResult[c]
       IN  /\ "success" \in DOMAIN br
           /\ IF br.success
              THEN /\ DOMAIN br = {"success", "data"}
                   /\ DOMAIN br.data =
                        {"personalInfo", "riskLevel", "transactions",
                         "investigations"}
                   /\ {"name", "dateOfBirth", "address"}
                        \subseteq DOMAIN br.data.personalInfo
                   /\ Called(c, "extractCustomerData")
              ELSE /\ DOMAIN br = {"success", "error"}
                   /\ br.error # <<>>

C7_Witness ==
  \E c \in Callers :
    /\ ExecuteReturned(c)
    /\ pc[c] = "decide"
    /\ browserResult[c].success
    /\ Len(browserResult[c].data.transactions) = 1
    /\ Len(browserResult[c].data.investigations) = 1

\* C8: what investigate returns is either success=true with report and
\* reportPath, or success=false with a non-empty error and no report; it
\* always returns one of the two
C8_InvestigateResultShape ==
  \A c \in Callers :
    (kind[c] = "investigate" /\ pc[c] = "done")
    => LET res == result[c]
       IN  /\ "success" \in DOMAIN res
           /\ IF res.success
              THEN /\ DOMAIN res = {"success", "report", "reportPath"}
                   /\ res.reportPath # <<>>
                   /\ "executiveSummary" \in DOMAIN res.report
              ELSE /\ DOMAIN res = {"success", "error"}
                   /\ res.error # <<>>

C8_Witness ==
  \E c \in Callers :
    /\ kind[c] = "investigate"
    /\ pc[c] = "done"
    /\ saveCalls[c] = 1
    /\ ~result[c].success

\* C9: a region text made of N well-formed records yields exactly N
\* transactions, the k-th with id TXN-k and the date and amount of the k-th
\* record
C9_OneTransactionPerRecord ==
  applied
  => /\ Len(output) = Len(input.recs)
     /\ \A k \in 1..Len(output) :
          /\ output[k].id = <<"T", "X", "N", "-", Digits[k + 1]>>
          /\ output[k].date = input.recs[k].date
          /\ output[k].amount = input.recs[k].amount

C9_Witness ==
  /\ applied
  /\ Len(input.recs) >= 2
  /\ Len(output) >= 2
  /\ output[2].id = <<"T", "X", "N", "-", "2">>
  /\ input.recs[1].date # input.recs[2].date

\* the amount in hundredths, read off the digits of a currency string with
\* two fraction digits
AmountInCents(amount) == DigitsToNat(SelectSeq(amount, IsDigit))

\* C10: an emitted transaction is flagged exactly when its counterparty
\* contains "crypto" in any letter case or its amount is greater than 10000
C10_FlaggedIff ==
  applied
  => \A k \in 1..Len(output) :
       output[k].flagged
         <=> \/ \E i \in 1..Len(output[k].counterparty) :
                  /\ i + 5 <= Len(output[k].counterparty)
                  /\ [j \in 1..6 |->
                        ToLowerChar(output[k].counterparty[i + j - 1])]
                       = <<"c", "r", "y", "p", "t", "o">>
             \/ AmountInCents(output[k].amount) > 100 * 10000

C10_Witness ==
  /\ applied
  /\ \E k \in 1..Len(output) :
       /\ output[k].amount = <<"$", "1", "0", ",", "0", "0", "0", ".", "0", "0">>
       /\ output[k].counterparty = <<"s", "h", "o", "p">>
       /\ ~output[k].flagged
  /\ \E k \in 1..Len(output) :
       /\ output[k].amount = <<"$", "9", ".", "9", "9">>
       /\ output[k].counterparty = <<"C", "r", "y", "p", "t", "o">>
       /\ output[k].flagged

(***************************************************************************)
(* extractRiskLevel applied on its own.                                    *)
(***************************************************************************)
\* texts shown beside a risk label, as the page holds them
RiskTexts ==
  {<<"H", "i", "g", "h">>, <<"C", "R", "I", "T", "I", "C", "A", "L">>, <<"C", "u", "r", "r", "e", "n", "t", " ", "L", "e", "v", "e", "l", "m", "e", "d", "i", "u", "m", " ", "R", "i", "s", "k">>, <<"M", "o", "d", "e", "r", "a", "t", "e">>, <<"l", "o", "w">>,
   <<"M", "i", "n", "i", "m", "a", "l">>, <<"N", "/", "A">>, <<" ", "N", "/", "A", " ">>, <<"m", "e", "d", "i", "u", "m", " ", "h", "i", "g", "h">>, <<"l", "o", "w", "C", "r", "i", "t", "i", "c", "a", "l">>, <<"m", "i", "n", "i", "m", "a", "l", " ", "M", "e", "d", "i", "u", "m">>, <<" ">>}

RiskLabels == {"Risk Level", "Risk", "Risk Score", "Risk Rating"}

\* a page that shows text beside one risk label, and the page that shows none
RiskInputs ==
  {[fn |-> "extractRiskLevel", located |-> t,
    page |-> [BlankPage EXCEPT !.elements =
                {[label |-> l, strategy |-> s, sibling |-> t,
                  parentSibling |-> <<>>]}]] :
     t \in RiskTexts, l \in RiskLabels, s \in Strategies}
  \cup {[fn |-> "extractRiskLevel", located |-> <<>>, page |-> BlankPage]}

InitRisk ==
  /\ InitWorkflow
  /\ input \in RiskInputs
  /\ output = None
  /\ applied = FALSE

ApplyExtractRiskLevel ==
  /\ ~applied
  /\ output' = extractRiskLevel(input.page)
  /\ applied' = TRUE
  /\ UNCHANGED <<input, serviceVars, runNo, callVars, worldVars>>

NextRisk == ApplyExtractRiskLevel

SpecRisk == InitRisk /\ [][NextRisk]_vars

\* s contains the keyword kw in any letter case
ContainsCI(s, kw) ==
  \E i \in 1..Len(s) :
    /\ i + Len(kw) - 1 <= Len(s)
    /\ \A j \in 1..Len(kw) : ToLowerChar(s[i + j - 1]) = kw[j]

\* C11: the risk level equals the reference function of the text t that
\* extractFieldValue located: High for high/critical, else Medium for
\* medium/moderate, else Low for low/minimal, else the trimmed text, and
\* Unknown when nothing was located (t is empty)
C11_RiskNormalization ==
  applied
  => LET t == extractFieldValue(input.page,
                                <<"Risk Level", "Risk", "Risk Score",
                                  "Risk Rating">>)
     IN  output =
           IF t = <<>> THEN <<"U", "n", "k", "n", "o", "w", "n">>
           ELSE IF ContainsCI(t, <<"h", "i", "g", "h">>) \/ ContainsCI(t, <<"c", "r", "i", "t", "i", "c", "a", "l">>)
                THEN <<"H", "i", "g", "h">>
           ELSE IF ContainsCI(t, <<"m", "e", "d", "i", "u", "m">>) \/ ContainsCI(t, <<"m", "o", "d", "e", "r", "a", "t", "e">>)
                THEN <<"M", "e", "d", "i", "u", "m">>
           ELSE IF ContainsCI(t, <<"l", "o", "w">>) \/ ContainsCI(t, <<"m", "i", "n", "i", "m", "a", "l">>)
                THEN <<"L", "o", "w">>
           ELSE trim(t)

C11_Witness ==
  /\ applied
  /\ input.located = <<"m", "e", "d", "i", "u", "m", " ", "h", "i", "g", "h">>
  /\ output = <<"H", "i", "g", "h">>

(***************************************************************************)
(* The investigations parser applied on its own.                           *)
(***************************************************************************)
InvTitles == {<<"U", "n", "u", "s", "u", "a", "l", " ", "v", "o", "l", "u", "m", "e">>, <<"a", "l", "e", "r", "t", "s">>, <<>>}

\* an id in the format, one with the literal in lower case, one with two
\* digits in its last group
InvIds == {<<"I", "N", "V", "-", "2", "0", "2", "3", "-", "0", "0", "1">>, <<"i", "n", "v", "-", "2", "0", "2", "4", "-", "0", "0", "2">>, <<"I", "N", "V", "-", "2", "0", "2", "3", "-", "0", "1">>}

InvDates == {<<"2", "0", "2", "3", "-", "1", "1", "-", "1", "5">>}

InvStatuses == {<<"c", "l", "o", "s", "e", "d">>, <<"O", "P", "E", "N">>}

InvRecords ==
  [title : InvTitles, id : InvIds, date : InvDates, status : InvStatuses]

RECURSIVE FlattenInvRecords(_)
FlattenInvRecords(recs) ==
  IF recs = <<>> THEN <<>>
  ELSE Head(recs).title \o Head(recs).id \o Head(recs).date
         \o Head(recs).status \o FlattenInvRecords(Tail(recs))

\* region texts: the heading followed by up to MaxRecs records
InvInputs ==
  {[fn |-> "parseInvestigations", recs |-> rs,
    text |-> <<"P", "a", "s", "t", " ", "I", "n", "v", "e", "s", "t", "i", "g", "a", "t", "i", "o", "n", "s">> \o FlattenInvRecords(rs)] :
     rs \in UNION {[1..n -> InvRecords] : n \in 0..MaxRecs}}

InitInv ==
  /\ InitWorkflow
  /\ input \in InvInputs
  /\ output = None
  /\ applied = FALSE

ApplyParseInvestigations ==
  /\ ~applied
  /\ output' = parseInvestigations(input.text)
  /\ applied' = TRUE
  /\ UNCHANGED <<input, serviceVars, runNo, callVars, worldVars>>

NextInv == ApplyParseInvestigations

SpecInv == InitInv /\ [][NextInv]_vars

\* id is INV-YYYY-NNN with the literal in upper case
IsInvId(id) ==
  /\ Len(id) = 12
  /\ SubSeq(id, 1, 4) = <<"I", "N", "V", "-">>
  /\ \A k \in {5, 6, 7, 8, 10, 11, 12} : id[k] \in {"0", "1", "2", "3", "4", "5", "6", "7", "8", "9"}
  /\ id[9] = "-"

\* the records of the region text that are occurrences of (id)(date)(status)
InvOccurrences == SelectSeq(input.recs, LAMBDA r : IsInvId(r.id))

\* the investigations emitted with an id in the format
InvEmittedInFormat == SelectSeq(output, LAMBDA i : IsInvId(i.id))

\* C12: every occurrence of (INV-YYYY-NNN)(date)(open|closed in any case)
\* yields exactly one Investigation, in order, with that id and date, status
\* "Open" or "Closed" and the placeholder investigator; no other status is
\* emitted
C12_OneInvestigationPerOccurrence ==
  applied
  => /\ Len(InvEmittedInFormat) = Len(InvOccurrences)
     /\ \A k \in 1..Len(InvOccurrences) :
          /\ InvEmittedInFormat[k].id = InvOccurrences[k].id
          /\ InvEmittedInFormat[k].date = InvOccurrences[k].date
          /\ InvEmittedInFormat[k].status =
               IF InvOccurrences[k].status \in {<<"c", "l", "o", "s", "e", "d">>}
               THEN <<"C", "l", "o", "s", "e", "d">> ELSE <<"O", "p", "e", "n">>
     /\ \A k \in 1..Len(output) :
          /\ output[k].status \in {<<"O", "p", "e", "n">>, <<"C", "l", "o", "s", "e", "d">>}
          /\ output[k].investigator = <<"Compliance Officer">>

C12_Witness ==
  /\ applied
  /\ Len(InvOccurrences) = 2
  /\ InvOccurrences[1].status = <<"O", "P", "E", "N">>
  /\ InvOccurrences[2].status = <<"c", "l", "o", "s", "e", "d">>
  /\ Len(output) = 2
  /\ output[1].status = <<"O", "p", "e", "n">>
  /\ output[2].status = <<"C", "l", "o", "s", "e", "d">>

\* C13: every emitted Investigation.id is INV-YYYY-NNN with the upper-case
\* literal; text that deviates from the format yields no investigation
C13_IdFormat ==
  applied => \A k \in 1..Len(output) : IsInvId(output[k].id)

(***************************************************************************)
(* extractCustomerData called twice on a service whose page is open and    *)
(* does not change.                                                        *)
(***************************************************************************)
PageParts == {"name", "fields", "transactions", "investigations"}

\* the profile pages, with either heading shown or hidden and any parts
\* unreadable
ExtractPages ==
  {[p EXCEPT !.txnHeading = th, !.invHeading = ih, !.unreadable = u] :
     p \in Pages, th \in BOOLEAN, ih \in BOOLEAN, u \in SUBSET PageParts}

InitExtract ==
  /\ browser = 1
  /\ context = 1
  /\ page = 1
  /\ closeCalls = {}
  /\ profile \in ExtractPages
  /\ runNo = 0
  /\ pc = [c \in Callers |-> "idle"]
  /\ kind = [c \in Callers |-> "none"]
  /\ run = [c \in Callers |-> 0]
  /\ customerName = [c \in Callers |-> <<>>]
  /\ calls = [c \in Callers |-> <<>>]
  /\ browserResult = [c \in Callers |-> None]
  /\ researchResult = [c \in Callers |-> None]
  /\ report = [c \in Callers |-> None]
  /\ result = [c \in Callers |-> None]
  /\ researchCalls = [c \in Callers |-> 0]
  /\ openaiRequests = [c \in Callers |-> 0]
  /\ saveCalls = [c \in Callers |-> 0]
  /\ files = <<>>
  /\ now = 1
  /\ input = [fn |-> "extractCustomerData"]
  /\ output = <<>>
  /\ applied = FALSE

\* one more call of extractCustomerData; output collects the records
ApplyExtractCustomerData ==
  /\ Len(output) < 2
  /\ page # 0
  /\ output' = Append(output, SvcExtractCustomerData)
  /\ applied' = TRUE
  /\ UNCHANGED <<input, serviceVars, runNo, callVars, worldVars>>

NextExtract == ApplyExtractCustomerData

SpecExtract == InitExtract /\ [][NextExtract]_vars

C15_MissingHeading ==
  \A r \in 1..Len(output) :
    /\ DOMAIN output[r] =
         {"personalInfo", "riskLevel", "transactions", "investigations"}
    /\ ~profile.txnHeading
       => /\ output[r].transactions = <<>>
          /\ output[r].personalInfo = extractPersonalInfo(profile)
          /\ output[r].riskLevel = extractRiskLevel(profile)
          /\ output[r].investigations = extractInvestigations(profile)
    /\ ~profile.invHeading
       => /\ output[r].investigations = <<>>
          /\ output[r].personalInfo = extractPersonalInfo(profile)
          /\ output[r].riskLevel = extractRiskLevel(profile)
          /\ output[r].transactions = extractTransactions(profile)

C15_Witness ==
  /\ Len(output) = 1
  /\ ~profile.txnHeading
  /\ profile.invHeading
  /\ profile.unreadable = {}
  /\ Len(profile.txnText) > 0
  /\ output[1].transactions = <<>>
  /\ Len(output[1].investigations) = 1
  /\ output[1].personalInfo.name = <<"J", "o", " ", "D">>
  /\ output[1].riskLevel = <<"M", "e", "d", "i", "u", "m">>

ExecuteSteps ==
  {"initialize", "login", "searchCustomer", "extractCustomerData"}

ConcurrentCallers == {1, 2}

InitConcurrent ==
  /\ browser = 0
  /\ context = 0
  /\ page = 0
  /\ closeCalls = {}
  /\ profile = BlankPage
  /\ runNo = 0
  /\ pc = [c \in ConcurrentCallers |-> "idle"]
  /\ kind = [c \in ConcurrentCallers |-> "none"]
  /\ run = [c \in ConcurrentCallers |-> 0]
  /\ customerName = [c \in ConcurrentCallers |-> <<>>]
  /\ calls = [c \in ConcurrentCallers |-> <<>>]
  /\ browserResult = [c \in ConcurrentCallers |-> None]
  /\ researchResult = [c \in ConcurrentCallers |-> None]
  /\ report = [c \in ConcurrentCallers |-> None]
  /\ result = [c \in ConcurrentCallers |-> None]
  /\ researchCalls = [c \in ConcurrentCallers |-> 0]
  /\ openaiRequests = [c \in ConcurrentCallers |-> 0]
  /\ saveCalls = [c \in ConcurrentCallers |-> 0]
  /\ files = <<>>
  /\ now = 1
  /\ InitFn

NextConcurrent ==
  \E c \in ConcurrentCallers :
    \/ Investigate(c)
    \/ Initialize(c)
    \/ Login(c)
    \/ SearchCustomer(c)
    \/ ExtractCustomerData(c)
    \/ Cleanup(c)
    \/ Decide(c)
    \/ Research(c)
    \/ Save(c)

SpecConcurrent == InitConcurrent /\ [][NextConcurrent]_vars

\* C18: every login, search and extraction step of an investigation runs
\* against the page that investigation opened: while an investigation is
\* between its initialize and its cleanup, the service holds the page it
\* opened, and no other investigation has closed it
C18_OwnPage ==
  \A c \in ConcurrentCallers :
    pc[c] \in {"login", "searchCustomer", "extractCustomerData"}
    => /\ page = run[c]
       /\ <<"page", run[c]>> \notin closeCalls

\* C19: from the moment the record is handed to ResearchAgent.execute, no
\* step of the investigation changes it: what BrowserAgent.execute returned
\* is the same before and after every step of the research phase and of the
\* save that follows, whether the phase succeeds or fails
C19_RecordNotModified ==
  [][\A c \in Callers :
       (kind[c] = "investigate" /\ pc[c] \in {"research", "save"})
       => browserResult'[c] = browserResult[c]]_vars

C19_Witness ==
  \E c \in Callers :
    /\ kind[c] = "investigate"
    /\ pc[c] = "save"
    /\ researchCalls[c] = 1
    /\ browserResult[c].success
    /\ browserResult[c].data.personalInfo.dateOfBirth = <<>>
    /\ report[c].internalDataOverview.customerProfile
         = browserResult[c].data.personalInfo

(***************************************************************************)
(* extractCustomerName of the command-line front end.                      *)
(***************************************************************************)
\* \w of a regular expression
IsWordChar(c) == IsUpper(c) \/ IsLower(c) \/ IsDigit(c) \/ c = "_"

WordCharAt(s, i) == i >= 1 /\ i <= Len(s) /\ IsWordChar(s[i])

\* \b between s[i - 1] and s[i]
WordBoundaryAt(s, i) == WordCharAt(s, i - 1) # WordCharAt(s, i)

\* new RegExp(`\\b${phrase}\\b`, 'gi') matches at position i
PhraseAt(s, i, phrase) ==
  /\ LiteralAtCI(s, i, phrase)
  /\ WordBoundaryAt(s, i)
  /\ WordBoundaryAt(s, i + Len(phrase))

\* normalized.replace(regex, ' '), from position i on
RECURSIVE RemovePhraseFrom(_, _, _)
RemovePhraseFrom(s, i, phrase) ==
  IF i > Len(s) THEN <<>>
  ELSE IF PhraseAt(s, i, phrase)
       THEN <<" ">> \o RemovePhraseFrom(s, i + Len(phrase), phrase)
       ELSE <<s[i]>> \o RemovePhraseFrom(s, i + 1, phrase)

commandPhrases ==
  << <<"p", "u", "l", "l">>,
     <<"g", "e", "t", " ", "m", "e">>,
     <<"g", "e", "t">>,
     <<"f", "e", "t", "c", "h">>,
     <<"r", "e", "t", "r", "i", "e", "v", "e">>,
     <<"i", "n", "v", "e", "s", "t", "i", "g", "a", "t", "e">>,
     <<"a", "n", "a", "l", "y", "z", "e">>,
     <<"r", "e", "s", "e", "a", "r", "c", "h">>,
     <<"l", "o", "o", "k", " ", "u", "p">>,
     <<"l", "o", "o", "k", "u", "p">>,
     <<"c", "h", "e", "c", "k">>,
     <<"f", "i", "n", "d">>,
     <<"s", "e", "a", "r", "c", "h", " ", "f", "o", "r">>,
     <<"s", "e", "a", "r", "c", "h">>,
     <<"f", "r", "o", "m", " ", "c", "o", "m", "p", "l", "i", "a", "n", "c", "e", "o", "s">>,
     <<"f", "r", "o", "m", " ", "c", "o", "m", "p", "l", "i", "a", "n", "c", "e">>,
     <<"i", "n", " ", "c", "o", "m", "p", "l", "i", "a", "n", "c", "e", "o", "s">>,
     <<"i", "n", " ", "c", "o", "m", "p", "l", "i", "a", "n", "c", "e">>,
     <<"'", "s", " ", "f", "i", "l", "e">>,
     <<"'", "s", " ", "d", "a", "t", "a">>,
     <<"'", "s", " ", "p", "r", "o", "f", "i", "l", "e">>,
     <<"'", "s", " ", "i", "n", "f", "o">>,
     <<"'", "s", " ", "i", "n", "f", "o", "r", "m", "a", "t", "i", "o", "n">>,
     <<"'", "s", " ", "r", "e", "c", "o", "r", "d">>,
     <<"'", "s", " ", "r", "e", "c", "o", "r", "d", "s">>,
     <<"f", "i", "l", "e">>,
     <<"d", "a", "t", "a">>,
     <<"p", "r", "o", "f", "i", "l", "e">>,
     <<"i", "n", "f", "o">>,
     <<"i", "n", "f", "o", "r", "m", "a", "t", "i", "o", "n">>,
     <<"r", "e", "c", "o", "r", "d">>,
     <<"r", "e", "c", "o", "r", "d", "s">>,
     <<"a", "n", "d", " ", "a", "n", "a", "l", "y", "z", "e">>,
     <<"a", "n", "d", " ", "i", "n", "v", "e", "s", "t", "i", "g", "a", "t", "e">>,
     <<"a", "n", "d", " ", "r", "e", "s", "e", "a", "r", "c", "h">>,
     <<"t", "r", "a", "n", "s", "a", "c", "t", "i", "o", "n", "s">>,
     <<"t", "h", "e", " ", "c", "u", "s", "t", "o", "m", "e", "r">>,
     <<"c", "u", "s", "t", "o", "m", "e", "r">>,
     <<"f", "o", "r", " ", "m", "e">>,
     <<"p", "l", "e", "a", "s", "e">>,
     <<"m", "e">> >>

\* for (const phrase of commandPhrases) {...}, from the k-th phrase on
RECURSIVE RemovePhrases(_, _)
RemovePhrases(s, k) ==
  IF k > Len(commandPhrases) \/ s = <<>> THEN s
  ELSE RemovePhrases(RemovePhraseFrom(s, 1, commandPhrases[k]), k + 1)

\* .replace(/['"]/g, '')
StripQuotes(s) == SelectSeq(s, LAMBDA c : c \notin {"'", "\""})

\* .replace(/\s+/g, ' ')
RECURSIVE CollapseSpaces(_)
CollapseSpaces(s) ==
  IF s = <<>> THEN <<>>
  ELSE IF IsSpace(Head(s))
       THEN LET rest == CollapseSpaces(Tail(s))
            IN  IF Len(s) > 1 /\ IsSpace(s[2]) THEN rest ELSE <<" ">> \o rest
       ELSE <<Head(s)>> \o CollapseSpaces(Tail(s))

\* split(' '), charAt(0).toUpperCase() + slice(1).toLowerCase(), join(' ')
CapitalizeWords(s) ==
  [i \in 1..Len(s) |->
     IF i = 1 \/ s[i - 1] = " " THEN ToUpperChar(s[i]) ELSE ToLowerChar(s[i])]

\* extractCustomerName(prompt); None is null
extractCustomerName(prompt) ==
  LET normalized ==
        trim(CollapseSpaces(StripQuotes(RemovePhrases(trim(prompt), 1))))
  IN  IF Len(normalized) > 0 THEN CapitalizeWords(normalized) ELSE None

\* prompts: a name between listed phrases
PromptPrefixes == {<<>>, <<"g", "e", "t", " ", "m", "e", " ">>, <<"i", "n", "v", "e", "s", "t", "i", "g", "a", "t", "e", " ">>, <<"l", "o", "o", "k", " ", "u", "p", " ">>, <<"P", "u", "l", "l", " ">>, <<"s", "e", "a", "r", "c", "h", " ", "f", "o", "r", " ", "t", "h", "e", " ", "c", "u", "s", "t", "o", "m", "e", "r", " ">>}

PromptNames ==
  {[typed |-> <<"w", "i", "l", "l", " ", "l", "a", "w", "r", "e", "n", "c", "e">>, name |-> <<"W", "i", "l", "l", " ", "L", "a", "w", "r", "e", "n", "c", "e">>],
   [typed |-> <<"J", "A", "N", "E", " ", "D", "O", "E">>, name |-> <<"J", "a", "n", "e", " ", "D", "o", "e">>]}

PromptSuffixes == {<<>>, <<"'", "s", " ", "d", "a", "t", "a", " ", "p", "l", "e", "a", "s", "e">>, <<" ", "a", "n", "d", " ", "a", "n", "a", "l", "y", "z", "e">>, <<"'", "s", " ", "f", "i", "l", "e", " ", "f", "r", "o", "m", " ", "C", "o", "m", "p", "l", "i", "a", "n", "c", "e", "O", "S">>, <<" ", "a", "n", "d", " ", "r", "e", "s", "e", "a", "r", "c", "h", " ", "f", "o", "r", " ", "m", "e">>, <<"'", "s", " ", "r", "e", "c", "o", "r", "d", "s">>}

PromptInputs ==
  {[fn |-> "extractCustomerName", name |-> n.name,
    text |-> a \o n.typed \o b] :
     a \in PromptPrefixes, n \in PromptNames, b \in PromptSuffixes}

InitPrompt ==
  /\ InitWorkflow
  /\ input \in PromptInputs
  /\ output = None
  /\ applied = FALSE

ApplyExtractCustomerName ==
  /\ ~applied
  /\ output' = extractCustomerName(input.text)
  /\ applied' = TRUE
  /\ UNCHANGED <<input, serviceVars, runNo, callVars, worldVars>>

NextPrompt == ApplyExtractCustomerName

SpecPrompt == InitPrompt /\ [][NextPrompt]_vars

\* C20: for a prompt made of a name surrounded by listed phrases,
\* extractCustomerName returns exactly the name with each word capitalised
C20_NameOnly == applied => output = input.name

(***************************************************************************)
(* C21.  Requests sent for one report.                                     *)
(***************************************************************************)

\* C21: an investigation whose report generation succeeded has sent exactly
\* one chat-completion request.
C21_SinglePass ==
  \A c \in Callers :
    (kind[c] = "investigate" /\ "success" \in DOMAIN researchResult[c]
       /\ researchResult[c].success)
      => openaiRequests[c] = 1

(***************************************************************************)
(* extractFieldValue applied on its own.                                   *)
(***************************************************************************)
\* the label lists handed to extractFieldValue: the e-mail list of
\* extractPersonalInfo, and the same labels in the other order
FieldLabelLists == {<<"Email", "E-mail">>, <<"E-mail", "Email">>}

\* what textContent() of a value position can give for the element that
\* pattern s finds for label l: nothing (absent, unreadable or empty),
\* white space only, or a text that names the position
FieldTexts(l, s, pos) ==
  {<<>>, <<" ">>,
   <<" ", (IF l = "Email" THEN "e" ELSE "m"), NatToStr(s)[1], pos, " ">>}

FieldElements ==
  UNION {{[label |-> l, strategy |-> s, sibling |-> v, parentSibling |-> w] :
            v \in FieldTexts(l, s, "s"), w \in FieldTexts(l, s, "p")} :
         l \in {"Email", "E-mail"}, s \in Strategies}

\* pages with at most two visible label elements, found by different
\* (label, pattern) pairs
FieldPages ==
  {[BlankPage EXCEPT !.elements = es, !.unreadable = u] :
     es \in {{}} \cup {{e} : e \in FieldElements}
            \cup {ef \in {{e, f} : e \in FieldElements, f \in FieldElements} :
                    \A e \in ef, f \in ef :
                      e = f \/ e.label # f.label \/ e.strategy # f.strategy},
     u \in {{}}}
  \cup {[BlankPage EXCEPT !.elements = {e}, !.unreadable = {"fields"}] :
          e \in FieldElements}

FieldInputs ==
  {[fn |-> "extractFieldValue", labels |-> ls, page |-> p] :
     ls \in FieldLabelLists, p \in FieldPages}

InitField ==
  /\ InitWorkflow
  /\ input \in FieldInputs
  /\ output = None
  /\ applied = FALSE

ApplyExtractFieldValue ==
  /\ ~applied
  /\ output' = extractFieldValue(input.page, input.labels)
  /\ applied' = TRUE
  /\ UNCHANGED <<input, serviceVars, runNo, callVars, worldVars>>

NextField == ApplyExtractFieldValue

SpecField == InitField /\ [][NextField]_vars

\* the (label index, pattern, position) combinations; position 1 is the
\* element's next sibling, 2 its parent's next sibling
FieldCombos == {<<i, s, pos>> : i \in 1..2, s \in Strategies, pos \in 1..2}

ComboBefore(a, b) ==
  \/ a[1] < b[1]
  \/ a[1] = b[1] /\ a[2] < b[2]
  \/ a[1] = b[1] /\ a[2] = b[2] /\ a[3] < b[3]

\* the text read at a combination, empty when the element is not visible or
\* the read gives nothing
ComboText(inp, cb) ==
  LET es == {e \in inp.page.elements :
               e.label = inp.labels[cb[1]] /\ e.strategy = cb[2]}
  IN  IF es = {} \/ "fields" \in inp.page.unreadable THEN <<>>
      ELSE LET e == CHOOSE x \in es : TRUE
           IN  IF cb[3] = 1 THEN e.sibling ELSE e.parentSibling

HasNonSpace(s) == \E i \in 1..Len(s) : ~IsSpace(s[i])

\* C22: the result is the trimmed text of the first combination, in the order
\* label, pattern, position, whose element is visible and whose read text is
\* non-empty; the result is empty when there is no such combination
C22_FirstCombinationWins ==
  applied
  => LET hits == {cb \in FieldCombos : ComboText(input, cb) # <<>>}
     IN  IF hits = {} THEN output = <<>>
         ELSE \E cb \in hits :
                /\ \A o \in hits : o = cb \/ ComboBefore(cb, o)
                /\ output = trim(ComboText(input, cb))

\* two combinations hold text and the result is the earlier one's: the parent
\* position of the first label's fourth pattern wins over the second label's
\* first pattern
C22_Witness ==
  /\ applied
  /\ input.labels = <<"Email", "E-mail">>
  /\ ComboText(input, <<1, 4, 2>>) = <<" ", "e", "4", "p", " ">>
  /\ ComboText(input, <<2, 1, 1>>) = <<" ", "m", "1", "s", " ">>
  /\ output = <<"e", "4", "p">>

\* C23: the result is empty only when no combination holds text with a
\* character other than white space
C23_EmptyOnlyWhenExhausted ==
  (applied /\ output = <<>>)
  => \A cb \in FieldCombos : ~HasNonSpace(ComboText(input, cb))

(***************************************************************************)
(* C24.  Counterparty and type of a transaction.                           *)
(***************************************************************************)
\* the positions of the trimmed middle run r where a fragment begins at a
\* capital letter
CapitalBoundaries(r) == {i \in 2..Len(r) : IsUpper(r[i])}

\* C24: for every record the type is the fragment after the last capital
\* boundary of the middle run and the counterparty is what precedes it; the
\* type is "Transfer" when the run has no boundary (one fragment, or blank)
C24_TypeAndCounterparty ==
  applied
  => \A k \in 1..Len(output) :
       LET r == trim(input.recs[k].text)
           cuts == CapitalBoundaries(r)
           last == CHOOSE i \in cuts : \A j \in cuts : j <= i
       IN  IF cuts = {} THEN output[k].type = <<"T", "r", "a", "n", "s", "f", "e", "r">>
           ELSE /\ output[k].type = trim(SubSeq(r, last, Len(r)))
                /\ output[k].counterparty = trim(SubSeq(r, 1, last - 1))

(***************************************************************************)
(* The summaries of the investigations parser.                             *)
(***************************************************************************)
\* what the page shows before an id: a title, a phrase the split consumes,
\* a phrase the clean-up removes, nothing
SummaryTitles == {<<"U", "n", "u", "s", "u", "a", "l", " ", "v", "o", "l", "u", "m", "e">>, <<"a", "l", "e", "r", "t", "s">>, <<"H", "i", "s", "t", "o", "r", "y", " ", "o", "f", " ", "c", "o", "m", "p", "l", "i", "a", "n", "c", "e">>, <<>>}

SummaryRecords ==
  [title : SummaryTitles, id : {<<"I", "N", "V", "-", "2", "0", "2", "3", "-", "0", "0", "1">>}, date : InvDates,
   status : {<<"c", "l", "o", "s", "e", "d">>, <<"O", "p", "e", "n">>}]

\* region texts: the heading followed by up to MaxRecs records
SummaryInputs ==
  {[fn |-> "parseInvestigations", recs |-> rs,
    text |-> <<"P", "a", "s", "t", " ", "I", "n", "v", "e", "s", "t", "i", "g", "a", "t", "i", "o", "n", "s">> \o FlattenInvRecords(rs)] :
     rs \in UNION {[1..n -> SummaryRecords] : n \in 0..MaxRecs}}

InitSummary ==
  /\ InitWorkflow
  /\ input \in SummaryInputs
  /\ output = None
  /\ applied = FALSE

ApplySummaries ==
  /\ ~applied
  /\ output' = parseInvestigations(input.text)
  /\ applied' = TRUE
  /\ UNCHANGED <<input, serviceVars, runNo, callVars, worldVars>>

NextSummary == ApplySummaries

SpecSummary == InitSummary /\ [][NextSummary]_vars

\* the number of characters of the region text before the id of record k
InvIdOffset(k) ==
  Len(<<"P", "a", "s", "t", " ", "I", "n", "v", "e", "s", "t", "i", "g", "a", "t", "i", "o", "n", "s">>)
    + Len(FlattenInvRecords(SubSeq(input.recs, 1, k - 1)))
    + Len(input.recs[k].title)

\* the final fragment of the text that precedes the id of record k, with the
\* boilerplate phrases stripped
FinalFragment(k) ==
  LET parts == SplitTitle(SubSeq(input.text, 1, InvIdOffset(k)))
  IN  trim(StripNoise(trim(parts[Len(parts)])))

\* C25: the summary of every investigation is the final fragment of the text
\* before its id, boilerplate stripped; it is never empty, and the summaries
\* that stand in for an empty fragment all carry the same label
C25_Summary ==
  applied
  => /\ Len(output) = Len(input.recs)
     /\ \A k \in 1..Len(output) :
          /\ output[k].summary # <<>>
          /\ FinalFragment(k) # <<>> => output[k].summary = FinalFragment(k)
          /\ FinalFragment(k) = <<>>
               => \A j \in 1..Len(output) :
                    FinalFragment(j) = <<>>
                      => output[j].summary = output[k].summary

\* C30: with two or more records, no summary contains the id, the date or
\* the status text of an investigation that precedes it in the region
C30_SummaryOwnText ==
  applied
  => \A k \in 2..Len(output) :
       \A j \in 1..(k - 1) :
         /\ ~includes(output[k].summary, input.recs[j].id)
         /\ ~includes(output[k].summary, input.recs[j].date)
         /\ ~includes(output[k].summary, input.recs[j].status)

(***************************************************************************)
(* The transactions parser on region texts that hold residual text.        *)
(***************************************************************************)
\* text behind an amount that belongs to no record
ResidualTexts == {<<>>, <<"V", "i", "e", "w", " ", "a", "l", "l">>}

\* a well-formed record (date)(text)(amount) and what follows its amount
ResidualRecords ==
  [date : TxnDates, text : {<<"C", "r", "y", "p", "t", "o", "X">>, <<"s", "h", "o", "p">>},
   amount : {<<"$", "9", ".", "9", "9">>, <<"$", "1", "0", ",", "0", "0", "0", ".", "0", "0">>}, tail : ResidualTexts]

RECURSIVE FlattenResidual(_)
FlattenResidual(recs) ==
  IF recs = <<>> THEN <<>>
  ELSE Head(recs).date \o Head(recs).text \o Head(recs).amount
         \o Head(recs).tail \o FlattenResidual(Tail(recs))

ResidualInputs ==
  {[fn |-> "parseTransactions", recs |-> rs,
    text |-> <<"R", "e", "c", "e", "n", "t", " ", "T", "r", "a", "n", "s", "a", "c", "t", "i", "o", "n", "s">> \o FlattenResidual(rs)] :
     rs \in UNION {[1..n -> ResidualRecords] : n \in 0..MaxRecs}}

InitResidual ==
  /\ InitWorkflow
  /\ input \in ResidualInputs
  /\ output = None
  /\ applied = FALSE

ApplyParseResidual ==
  /\ ~applied
  /\ output' = parseTransactions(input.text)
  /\ applied' = TRUE
  /\ UNCHANGED <<input, serviceVars, runNo, callVars, worldVars>>

NextResidual == ApplyParseResidual

SpecResidual == InitResidual /\ [][NextResidual]_vars

\* C27: every well-formed record of the region text is emitted, with its date
\* and amount, whatever follows its amount: another record, the end of the
\* text or residual text
C27_ResidualNeverSuppresses ==
  applied
  => /\ Len(output) = Len(input.recs)
     /\ \A k \in 1..Len(output) :
          /\ output[k].date = input.recs[k].date
          /\ output[k].amount = input.recs[k].amount

(***************************************************************************)
(* C26.  One investigation is one sequential pipeline.                     *)
(***************************************************************************)
\* the service calls of BrowserAgent.execute before its finally block, in
\* the order of the code
ExecuteOrder ==
  <<"initialize", "login", "searchCustomer", "extractCustomerData">>

\* the methods of calls[c] that are among the given ones, in call order
CallsAmong(c, methods) ==
  SelectSeq(calls[c], LAMBDA m : \E i \in 1..Len(methods) : methods[i] = m)

IsPrefix(s, t) == Len(s) <= Len(t) /\ s = SubSeq(t, 1, Len(s))

\* C26: in every investigation the steps called so far are a prefix of
\* initialize, login, searchCustomer, extractCustomerData; a step is about to
\* start only while no failure is recorded and, after initialize, the page is
\* open; extractCustomerData is not called after a search that did not find
\* the customer; the extractions run in the order personal info, risk level,
\* transactions, investigations, after extractCustomerData was entered; and
\* the research phase is entered only after execute returned a result,
\* cleanup being its last service call
C26_SequentialPipeline ==
  \A c \in Callers :
    kind[c] = "investigate"
    => /\ IsPrefix(CallsAmong(c, ExecuteOrder), ExecuteOrder)
       /\ pc[c] \in {"initialize", "login", "searchCustomer",
                     "extractCustomerData"}
            => /\ browserResult[c] = None
               /\ pc[c] # "initialize" => page # 0
               /\ ~Called(c, "cleanup")
               /\ researchCalls[c] = 0
       /\ (browserResult[c] # None /\ ~browserResult[c].success)
            => CallsAmong(c, ExtractionCalls) = <<>>
       /\ (browserResult[c] # None /\ ~browserResult[c].success
             /\ Called(c, "searchCustomer")
             /\ browserResult[c].error
                  = <<"Customer \"">> \o customerName[c]
                      \o <<"\" not found in ComplianceOS">>)
            => ~Called(c, "extractCustomerData")
       /\ CallsAmong(c, ExtractionCalls) # <<>>
            => /\ CallsAmong(c, ExtractionCalls)
                    = <<"extractPersonalInfo", "extractRiskLevel",
                        "extractTransactions", "extractInvestigations">>
               /\ \E i \in 1..Len(calls[c]) :
                    /\ calls[c][i] = "extractCustomerData"
                    /\ calls[c][i + 1] = "extractPersonalInfo"
       /\ (pc[c] = "research" \/ researchCalls[c] > 0)
            => /\ browserResult[c] # None
               /\ Count(calls[c], "cleanup") = 1
               /\ calls[c][Len(calls[c])] = "cleanup"

\* a call that found the customer, ran the four extractions and reached the
\* research phase
C26_Witness ==
  \E c \in Callers :
    /\ kind[c] = "investigate"
    /\ researchCalls[c] = 1
    /\ calls[c] = <<"initialize", "login", "searchCustomer",
                    "extractCustomerData", "extractPersonalInfo",
                    "extractRiskLevel", "extractTransactions",
                    "extractInvestigations", "cleanup">>

(***************************************************************************)
(* C28.  The service after cleanup.                                        *)
(***************************************************************************)

\* C28: once cleanup has returned in a call, the service holds no page, no
\* context and no browser, also when a close() threw
C28_NothingHeldAfterCleanup ==
  \A c \in Callers :
    (kind[c] # "none" /\ Called(c, "cleanup"))
      => /\ page = 0
         /\ context = 0
         /\ browser = 0

(***************************************************************************)
(* C29.  saveReport within one investigate.                                *)
(***************************************************************************)

\* C29: in every step of an investigation saveReport has been called at most
\* once; a file is written only by that call, and it holds the report that is
\* returned with success, under the returned path; a saveReport that wrote no
\* file makes investigate return success=false; and after a failed
\* ResearchAgent.execute investigate returns success=false with the research
\* error, without calling saveReport or writing a file
C29_SaveOnce ==
  [][\A c \in Callers :
       kind'[c] = "investigate"
       => /\ saveCalls'[c] <= 1
          /\ files' # files
               => /\ saveCalls'[c] = saveCalls[c] + 1
                  /\ result'[c].success
                  /\ files' = Append(files,
                                     [path |-> result'[c].reportPath,
                                      report |-> result'[c].report])
          /\ (saveCalls'[c] = saveCalls[c] + 1 /\ files' = files)
               => (result'[c] # None /\ ~result'[c].success)
          /\ (researchResult'[c] # None /\ ~researchResult'[c].success)
               => /\ result'[c] # None
                  /\ ~result'[c].success
                  /\ result'[c].error = researchResult'[c].error
                  /\ saveCalls'[c] = 0
                  /\ files' = files]_vars

\* a first investigation saved its report, and a second one ended with the
\* error of its failed research phase without saving
C29_Witness ==
  \E c \in Callers :
    /\ kind[c] = "investigate"
    /\ pc[c] = "done"
    /\ Len(files) = 1
    /\ researchResult[c] # None
    /\ ~researchResult[c].success
    /\ result[c] = researchResult[c]
    /\ saveCalls[c] = 0

====
